---- MODULE Spec2Model ----
(***************************************************************************)
(* A model of the collection pipeline of pve-exporter: the Prometheus      *)
(* collector that authenticates to the Proxmox API, pre-fetches the node   *)
(* list and the guest inventory, fans out ten sub-collectors and joins     *)
(* them (src/collector/collect.go, src/collector/api.go,                   *)
(* src/collector/backup.go, src/collector/zfs.go,                          *)
(* src/collector/sensors.go, src/config, src/unnamed/part_000,             *)
(* src/unnamed/part_003, src/unnamed/part_004, src/unnamed/part_006).      *)
(*                                                                         *)
(* Spec        one Collect invocation with its ten sub-collectors; every   *)
(*             goroutine is a record of the set `workers`, one action per  *)
(*             goroutine step from one request to the next.                *)
(* SpecSession overlapping Collect invocations at the granularity of the   *)
(*             session lock and of the reads and writes of ticket/csrf.    *)
(* SpecVM      collectVMMetricsWithNodes applied to every guest listing.   *)
(* SpecDisk    collectNodeDiskSMART applied to every disk listing.         *)
(* SpecStorage the four per-node sub-collectors on a list of nodes.        *)
(* SpecBackup  collectBackupMetricsWithGuests over task lists and logs.    *)
(* SpecCluster collectClusterMetrics over the bodies of /cluster/status.   *)
(* SpecLXC     the goroutine of one container over its pressure strings.   *)
(* SpecNode    collectNodeDetailedMetrics over loadavg arrays.             *)
(* SpecARC     collectZFSARCMetrics over the lines of arcstats.            *)
(* SpecSensors collectSensorsMetrics over the readings of one sensor.      *)
(* SpecConfig  config.Load and the registration of the collector.          *)
(* SpecLive    the scrapes whose goroutines wait for each other, with      *)
(*             fair scheduling.                                            *)
(***************************************************************************)
EXTENDS Integers, Sequences, FiniteSets, Bags, TLC

\* ---------------------------------------------------------------- bounds
\* nodes the upstream /nodes listing may hold
MaxNodes == 1
\* guests one /nodes/{node}/{kind} listing may hold
MaxGuests == 2
\* upstream requests and local reads that may fail in one scrape
MaxFailures == 1

VARIABLES
    cfg,        \* c.config: TokenID, TokenSecret
    ticket,     \* c.ticket
    csrf,       \* c.csrf
    up,         \* the upstream the exporter talks to (what the API would answer)
    pc,         \* where the Collect invocation stands
    nodes,      \* Collect's local `nodes`
    guests,     \* Collect's local `guests`, shared with the backup sub-collector
    workers,    \* the live goroutines below Collect
    requests,   \* bag of the GET requests sent (c.client.Do)
    posts,      \* number of POST /access/ticket sent (c.client.PostForm)
    samples,    \* bag of the samples sent on ch
    nfail,      \* failures the upstream has produced so far
    backups,    \* collectBackupMetricsWithGuests' `backups`
    localBackups, \* processBatchBackupJobs' `localBackups`, one per node
    totalGuests, \* collectBackupMetricsWithGuests' `totalGuests`
    logged,     \* what Collect has written with log.Printf
    prefetched, \* whether the /cluster/resources body arrived and parsed
    mutex,      \* c.mutex: the goroutine holding Lock, those holding RLock
    sess,       \* the Collect invocations of a session, each with its goroutines
    host,       \* the exporter's host: the offset of time.Local from UTC, in seconds
    collected,  \* the backup records the scrape has compared against a map
    described   \* the descriptors Describe has sent to the registry

vars == <<cfg, ticket, csrf, up, pc, nodes, guests, workers, requests, posts,
          samples, nfail, backups, localBackups, totalGuests, logged, prefetched,
          mutex, sess, host, collected, described>>

\* what the actions of a single scrape leave alone
session == <<mutex, sess>>

\* ------------------------------------------------------------ conversions
Digits == <<"0", "1", "2", "3", "4", "5", "6", "7", "8", "9">>

\* strconv.FormatInt(v, 10) and fmt.Sprintf("%d", v) for v >= 0
RECURSIVE FormatInt(_)
FormatInt(v) ==
    IF v < 10 THEN Digits[v + 1]
    ELSE FormatInt(v \div 10) \o Digits[(v % 10) + 1]

\* the elements of a sequence
Range(s) == {s[i] : i \in DOMAIN s}

\* the number a string of decimal digits, given as its characters, stands for
RECURSIVE DigitsValue(_, _)
DigitsValue(acc, cs) ==
    IF cs = <<>> THEN acc
    ELSE DigitsValue(10 * acc + (CHOOSE d \in 0..9 : Digits[d + 1] = Head(cs)),
                     Tail(cs))

\* strconv.ParseFloat(s, 64) on a string given as its characters, for strings
\* without exponent, hexadecimal, infinity or NaN forms: an optional sign, then
\* digits with at most one point and at least one digit. ok is err == nil; the
\* float64 is given in hundredths, cut after the second fraction digit
ParseFloat(s) ==
    LET signed == s # <<>> /\ Head(s) \in {"+", "-"}
        body == IF signed THEN Tail(s) ELSE s
        dots == {i \in DOMAIN body : body[i] = "."}
        point == IF dots = {} THEN Len(body) + 1 ELSE CHOOSE i \in dots : TRUE
        whole == SubSeq(body, 1, point - 1)
        frac == SubSeq(body, point + 1, Len(body))
        ok == /\ Cardinality(dots) <= 1
              /\ \A c \in Range(whole) \cup Range(frac) : c \in Range(Digits)
              /\ whole \o frac # <<>>
        abs == 100 * DigitsValue(0, whole)
               + DigitsValue(0, SubSeq(frac \o <<"0", "0">>, 1, 2))
    IN [ok |-> ok,
        val |-> IF ~ok THEN 0 ELSE IF signed /\ Head(s) = "-" THEN 0 - abs ELSE abs]

\* the empty map
EmptyMap == [k \in {} |-> 0]

\* m with m[k] = v
MapPut(m, k, v) == [x \in DOMAIN m \cup {k} |-> IF x = k THEN v ELSE m[x]]

\* ------------------------------------------------------------------ host
\* a host whose local time is UTC, with the hits and misses lines of an
\* arcstats file and one chip whose four sensors give a temperature, a fan speed, a
\* voltage and a power reading
UTCHost ==
    LET
        Line(name, value) == <<name, "4", value>>
        Reading(key, v) == [key |-> key, value |-> [num |-> TRUE, v |-> v]]
        Sensor(name, map) == [name |-> name, map |-> map]
    IN
    [tz |-> 0,
     arcstats |->
        <<Line("hits", <<"3">>), Line("misses", <<"1">>)>>,
     sensors |->
        <<[name |-> "coretemp-isa-0000", adapter |-> "ISA adapter",
           sensors |->
              <<Sensor("Core 0", <<Reading(<<"t", "e", "m", "p", "1", "_", "i", "n", "p", "u", "t">>, 40)>>),
                Sensor("fan1", <<Reading(<<"f", "a", "n", "1", "_", "i", "n", "p", "u", "t">>, 1200)>>),
                Sensor("in0", <<Reading(<<"i", "n", "0", "_", "i", "n", "p", "u", "t">>, 1)>>),
                Sensor("power1",
                       <<Reading(<<"p", "o", "w", "e", "r", "1", "_", "a", "v", "e", "r", "a", "g", "e">>, 7),
                         Reading(<<"p", "o", "w", "e", "r", "1", "_", "i", "n", "p", "u", "t">>, 5)>>)>>]>>]

\* ---------------------------------------------------------------- config
\* the condition of api.go:17 and api.go:66
TokenMode == cfg.TokenID # "" /\ cfg.TokenSecret # ""

\* ---------------------------------------------------------------- upstream
NodeName(i) == "pve" \o FormatInt(i)
NodeIndex(n) == CHOOSE i \in 1..(MaxNodes + 1) : NodeName(i) = n
Kinds == {"qemu", "lxc"}
GuestStatuses == {"running", "stopped"}

GuestName(vmid) == "guest" \o FormatInt(vmid)

\* the loadavg array and the cpuinfo.mhz string of /nodes/{node}/status
NodeStatus(loadavg, mhz) == [loadavg |-> loadavg, mhz |-> mhz]

\* a node status with three load averages of "0.75" and a frequency of "2400"
HealthyNodeStatus ==
    NodeStatus([i \in 1..3 |-> <<"0", ".", "7", "5">>], <<"2", "4", "0", "0">>)

\* the listing of /nodes/{node}/{kind} for node i whose guests have these
\* statuses; VMIDs are unique in the cluster
GuestList(i, kind, sts) ==
    LET
        \* the six pressure strings of a container's status/current, in the order
        \* pressurecpufull, pressurecpusome, pressureiofull, pressureiosome,
        \* pressurememoryfull, pressurememorysome; here every one is "0.75"
        HealthyPSI == [f \in 1..6 |-> <<"0", ".", "7", "5">>]
    IN
    [j \in DOMAIN sts |->
        [vmid |-> 100 * i + (IF kind = "lxc" THEN 50 ELSE 0) + j, status |-> sts[j],
         psi |-> HealthyPSI]]

\* ------------------------------------------------------------- requests
\* one API path; the unused parts stay at "" and 0
Path(ep, node, kind, vmid, upid) ==
    [ep |-> ep, node |-> node, kind |-> kind, vmid |-> vmid, upid |-> upid]

PathNodes == Path("/nodes", "", "", 0, 0)
PathResources == Path("/cluster/resources?type=vm", "", "", 0, 0)
PathGuestList(n, kind) == Path("/nodes/%s/%s", n, kind, 0, 0)
PathStatusCurrent(n, kind, vmid) ==
    Path("/nodes/%s/%s/%d/status/current", n, kind, vmid, 0)

Absent == "<absent>"

\* headers that carry the session cookie in token mode too
HeadersWithCookie(t, c) ==
    [Authorization |-> IF TokenMode
                       THEN "PVEAPIToken=" \o cfg.TokenID \o "=" \o cfg.TokenSecret
                       ELSE Absent,
     Cookie |-> "PVEAuthCookie=" \o t, CSRFPreventionToken |-> c]

\* the headers apiRequest sets from a ticket and a CSRF token (api.go:65-72)
Headers(t, c) ==
    IF TokenMode
    THEN [Authorization |-> "PVEAPIToken=" \o cfg.TokenID \o "=" \o cfg.TokenSecret,
          Cookie |-> Absent, CSRFPreventionToken |-> Absent]
    ELSE [Authorization |-> Absent,
          Cookie |-> "PVEAuthCookie=" \o t, CSRFPreventionToken |-> c]

\* one GET as the upstream sees it: who sent it, the path, the headers, and
\* whether the caller got a body that parses out of it
Request(by, path, hdr, o) == [by |-> by, path |-> path, hdr |-> hdr, ok |-> o = "ok"]

\* apiRequest(path) called by `by` while no authenticate call is running, with
\* outcome o: the bag of requests after c.client.Do
ApiRequest(by, path, o) ==
    requests (+) SetToBag({Request(by, path, Headers(ticket, csrf), o)})

\* the credentials the k-th successful POST /access/ticket returns
TicketOf(k) == "PVE:ticket" \o FormatInt(k)
CSRFOf(k) == "csrf" \o FormatInt(k)

\* ---------------------------------------------------------------- samples
\* prometheus.MustNewConstMetric(desc, _, val, labels...)
Sample(desc, val, labels) == [desc |-> desc, val |-> val, labels |-> labels]

\* the bag of the elements of a sequence
SeqToBag(seq) ==
    [x \in Range(seq) |-> Cardinality({i \in DOMAIN seq : seq[i] = x})]

\* ch <- each sample of the sequence
Emit(bag, seq) == bag (+) SeqToBag(seq)

\* one sample of value 0 per descriptor, all with the same labels
Each(descs, labels) == [i \in DOMAIN descs |-> Sample(descs[i], 0, labels)]

\* the concatenation of the sequences f(s[1]), f(s[2]), ...
RECURSIVE FlatMap(_, _)
FlatMap(f(_), s) ==
    IF s = <<>> THEN <<>> ELSE f(Head(s)) \o FlatMap(f, Tail(s))

\* --------------------------------------------------------------- goroutines
\* the ten goroutines Collect starts (collect.go:69-120)
SubCollectors ==
    {"collectNodeMetricsWithNodes", "collectVMMetricsWithNodes",
     "collectStorageMetrics", "collectZFSMetricsWithNodes",
     "collectSensorsMetrics", "collectDiskMetrics",
     "collectBackupMetricsWithGuests", "collectClusterMetrics",
     "collectReplicationMetrics", "collectCertificateMetrics"}

\* a live goroutine: the sub-collector it belongs to, the function it runs, the
\* arguments it was started with and where it stands
Worker(sub, fn, node, kind, vmid, upid, st) ==
    [sub |-> sub, fn |-> fn, node |-> node, kind |-> kind, vmid |-> vmid,
     upid |-> upid, st |-> st]

\* the sub-collector's goroutine has not called wg.Done yet: it runs, or it
\* waits in wg.Wait for a worker it started
Live(ws, s) == \E w \in ws : w.sub = s

\* the workers started by parent worker `fn` for (node, kind) that still run
Children(ws, fn, node, kind) ==
    {w \in ws : w.fn = fn /\ w.node = node /\ w.kind = kind}

\* the outcome of one upstream request or local read: the body arrives and
\* parses, the call returns an error, or the body does not parse
Outcomes == {"ok", "error", "badbody"}
MayHave(o) == o = "ok" \/ nfail < MaxFailures
Failures(o) == IF o = "ok" THEN nfail ELSE nfail + 1

\* ------------------------------------------------------------ descriptors
\* the descriptors of the catalogue, each with the label names NewDesc gives it
\* (the fields of ProxmoxCollector as NewProxmoxCollector fills them)
Catalogue ==
    [d \in {"nodeUp", "nodeUptime", "nodeCPULoad", "nodeCPUs", "nodeMemoryTotal",
            "nodeMemoryUsed", "nodeMemoryFree", "nodeSwapTotal", "nodeSwapUsed",
            "nodeSwapFree", "nodeVMCount", "nodeLXCCount", "nodeLoad1", "nodeLoad5",
            "nodeLoad15", "nodeIOWait", "nodeIdle", "nodeCPUMhz", "nodeRootfsTotal",
            "nodeRootfsUsed", "nodeRootfsFree", "nodeCPUCores", "nodeCPUSockets",
            "nodeKSMShared", "zfsARCSize", "zfsARCMinSize", "zfsARCMaxSize",
            "zfsARCHits", "zfsARCMisses", "zfsARCHitRatio", "zfsARCTargetSize",
            "zfsARCL2Hits", "zfsARCL2Misses", "zfsARCL2Size", "zfsARCL2HeaderSize",
            "certificateExpiry"}
        |-> <<"node">>]
    @@
    [d \in {"vmStatus", "vmUptime", "vmCPU", "vmCPUs", "vmMemory", "vmMaxMemory",
            "vmFreeMem", "vmBalloon", "vmMaxDisk", "vmNetIn", "vmNetOut", "vmDiskRead",
            "vmDiskWrite", "vmHAManaged", "vmPID", "vmMemHost", "vmPressureCPUFull",
            "vmPressureCPUSome", "vmPressureIOFull", "vmPressureIOSome",
            "vmPressureMemoryFull", "vmPressureMemorySome", "vmBalloonActual",
            "vmBalloonMaxMem", "vmBalloonTotalMem", "vmBalloonMajorFaults",
            "vmBalloonMinorFaults", "vmBalloonMemSwappedIn", "vmBalloonMemSwappedOut",
            "lxcStatus", "lxcUptime", "lxcCPU", "lxcCPUs", "lxcMemory", "lxcMaxMemory",
            "lxcDisk", "lxcMaxDisk", "lxcNetIn", "lxcNetOut", "lxcDiskRead",
            "lxcDiskWrite", "lxcSwap", "lxcMaxSwap", "lxcHAManaged", "lxcPID",
            "lxcPressureCPUFull", "lxcPressureCPUSome", "lxcPressureIOFull",
            "lxcPressureIOSome", "lxcPressureMemoryFull", "lxcPressureMemorySome",
            "vmLastBackup", "lxcLastBackup"}
        |-> <<"node", "vmid", "name">>]
    @@
    [d \in {"vmBlockReadBytes", "vmBlockWriteBytes", "vmBlockReadOps",
            "vmBlockWriteOps", "vmBlockFailedRead", "vmBlockFailedWrite",
            "vmBlockFlushOps"}
        |-> <<"node", "vmid", "name", "device">>]
    @@
    [d \in {"vmNICNetIn", "vmNICNetOut"}
        |-> <<"node", "vmid", "name", "interface">>]
    @@
    [d \in {"storageTotal", "storageUsed", "storageAvail", "storageActive",
            "storageEnabled", "storageShared", "storageUsedFraction"}
        |-> <<"node", "storage", "type">>]
    @@
    [d \in {"zfsPoolHealth", "zfsPoolSize", "zfsPoolAlloc", "zfsPoolFree", "zfsPoolFrag"}
        |-> <<"node", "pool">>]
    @@
    [d \in {"sensorTemperature", "sensorFanRPM", "sensorVoltage", "sensorPower"}
        |-> <<"node", "chip", "adapter", "sensor">>]
    @@
    [d \in {"diskTemperature", "diskPowerOnHours", "diskHealth", "diskDataWritten",
            "diskAvailableSpare", "diskPercentageUsed"}
        |-> <<"node", "device", "model", "serial", "type">>]
    @@
    [d \in {"diskReadBytes", "diskWriteBytes", "diskReadsCompleted",
            "diskWritesCompleted", "diskIOTime"}
        |-> <<"node", "device">>]
    @@
    [d \in {"clusterQuorate", "clusterNodesTotal", "clusterNodesOnline",
            "haResourcesTotal", "haResourcesActive"}
        |-> <<>>]
    @@
    [d \in {"replicationLastSync", "replicationDuration", "replicationStatus"}
        |-> <<"guest", "job">>]

\* Describe stopping after its first three statements
DescriptorsFirstThree ==
    <<"nodeUp", "nodeUptime", "nodeCPULoad">>

\* the descriptors Describe sends, in the order of its statements
Descriptors ==
    <<"nodeUp", "nodeUptime", "nodeCPULoad", "nodeCPUs", "nodeMemoryTotal",
      "nodeMemoryUsed", "nodeMemoryFree", "nodeSwapTotal", "nodeSwapUsed",
      "nodeSwapFree", "nodeVMCount", "nodeLXCCount", "nodeLoad1", "nodeLoad5",
      "nodeLoad15", "nodeIOWait", "nodeIdle", "nodeCPUMhz", "nodeRootfsTotal",
      "nodeRootfsUsed", "nodeRootfsFree", "nodeCPUCores", "nodeCPUSockets",
      "nodeKSMShared", "vmStatus", "vmUptime", "vmCPU", "vmCPUs", "vmMemory",
      "vmMaxMemory", "vmFreeMem", "vmBalloon", "vmMaxDisk", "vmNetIn", "vmNetOut",
      "vmDiskRead", "vmDiskWrite", "vmHAManaged", "vmPID", "vmMemHost",
      "vmPressureCPUFull", "vmPressureCPUSome", "vmPressureIOFull", "vmPressureIOSome",
      "vmPressureMemoryFull", "vmPressureMemorySome", "vmBalloonActual",
      "vmBalloonMaxMem", "vmBalloonTotalMem", "vmBalloonMajorFaults",
      "vmBalloonMinorFaults", "vmBalloonMemSwappedIn", "vmBalloonMemSwappedOut",
      "vmBlockReadBytes", "vmBlockWriteBytes", "vmBlockReadOps", "vmBlockWriteOps",
      "vmBlockFailedRead", "vmBlockFailedWrite", "vmBlockFlushOps", "vmNICNetIn",
      "vmNICNetOut", "lxcStatus", "lxcUptime", "lxcCPU", "lxcCPUs", "lxcMemory",
      "lxcMaxMemory", "lxcDisk", "lxcMaxDisk", "lxcNetIn", "lxcNetOut", "lxcDiskRead",
      "lxcDiskWrite", "lxcSwap", "lxcMaxSwap", "lxcHAManaged", "lxcPID",
      "lxcPressureCPUFull", "lxcPressureCPUSome", "lxcPressureIOFull",
      "lxcPressureIOSome", "lxcPressureMemoryFull", "lxcPressureMemorySome",
      "storageTotal", "storageUsed", "storageAvail", "storageActive", "storageEnabled",
      "storageShared", "storageUsedFraction", "zfsPoolHealth", "zfsPoolSize",
      "zfsPoolAlloc", "zfsPoolFree", "zfsPoolFrag", "zfsARCSize", "zfsARCMinSize",
      "zfsARCMaxSize", "zfsARCHits", "zfsARCMisses", "zfsARCHitRatio",
      "zfsARCTargetSize", "zfsARCL2Hits", "zfsARCL2Misses", "zfsARCL2Size",
      "zfsARCL2HeaderSize", "sensorTemperature", "sensorFanRPM", "sensorVoltage",
      "sensorPower", "diskTemperature", "diskPowerOnHours", "diskHealth",
      "diskDataWritten", "diskAvailableSpare", "diskPercentageUsed", "diskReadBytes",
      "diskWriteBytes", "diskReadsCompleted", "diskWritesCompleted", "diskIOTime",
      "vmLastBackup", "lxcLastBackup", "clusterQuorate", "clusterNodesTotal",
      "clusterNodesOnline", "haResourcesTotal", "haResourcesActive",
      "replicationLastSync", "replicationDuration", "replicationStatus",
      "certificateExpiry">>

\* Describe, called once by registry.MustRegister before the exporter serves
\* its first scrape: every statement sends one descriptor
Describe ==
    /\ pc = "register"
    /\ described' = Descriptors
    /\ pc' = "idle"
    /\ UNCHANGED <<session, host, collected, logged, prefetched, cfg, ticket, csrf, up, nodes,
                   guests, workers, requests, posts, samples, nfail, backups,
                   localBackups, totalGuests>>

NodeStatusDescs ==
    <<"nodeLoad1", "nodeLoad5", "nodeLoad15", "nodeIOWait", "nodeIdle",
      "nodeCPUMhz", "nodeRootfsTotal", "nodeRootfsUsed", "nodeRootfsFree",
      "nodeCPUCores", "nodeCPUSockets", "nodeKSMShared", "nodeSwapTotal",
      "nodeSwapUsed", "nodeSwapFree">>
StorageDescs ==
    <<"storageTotal", "storageUsed", "storageAvail", "storageActive",
      "storageEnabled", "storageShared", "storageUsedFraction">>
LXCDetailDescs ==
    <<"lxcSwap", "lxcMaxSwap", "lxcHAManaged", "lxcPID", "lxcPressureCPUFull",
      "lxcPressureCPUSome", "lxcPressureIOFull", "lxcPressureIOSome",
      "lxcPressureMemoryFull", "lxcPressureMemorySome">>
\* ------------------------------------------------------------------ Collect
\* the guest inventory /cluster/resources?type=vm lists: every guest of every
\* node, keyed by strconv.FormatInt(vmid) (collect.go:59-62)
RECURSIVE InventoryOf(_, _)
InventoryOf(m, entries) ==
    IF entries = <<>> THEN m
    ELSE LET e == Head(entries)
         IN InventoryOf(MapPut(m, FormatInt(e.vmid),
                               [Node |-> e.node, Name |-> GuestName(e.vmid),
                                Type |-> e.kind]),
                        Tail(entries))

GuestEntries(n, kind) ==
    [i \in DOMAIN up.guests[n][kind] |->
        [vmid |-> up.guests[n][kind][i].vmid, node |-> n, kind |-> kind]]

\* the data array of /cluster/resources?type=vm
UpstreamResources ==
    LET
        NodeGuestEntries(n) == GuestEntries(n, "qemu") \o GuestEntries(n, "lxc")
    IN
    FlatMap(NodeGuestEntries, up.nodes)

\* Collect going on to GET /nodes after authenticate has returned an error
Collect_authenticate_goesOn ==
    /\ pc = "idle"
    /\ ~TokenMode
    /\ \E o \in Outcomes :
        /\ MayHave(o)
        /\ posts' = posts + 1
        /\ nfail' = Failures(o)
        /\ ticket' = IF o = "ok" THEN TicketOf(posts + 1) ELSE ticket
        /\ csrf' = IF o = "ok" THEN CSRFOf(posts + 1) ELSE csrf
        /\ logged' = IF o = "ok" THEN logged
                     ELSE Append(logged, "Error during authentication")
    /\ pc' = "nodes"
    /\ UNCHANGED <<session, described, host, collected, prefetched, cfg, up, nodes, guests, workers, requests,
                   samples, backups, localBackups, totalGuests>>

\* Collect, collect.go:15-18 with authenticate (api.go:12-53) run as one step:
\* nothing to do in token mode; otherwise one POST /access/ticket, whose
\* ticket and CSRF token are stored when it answers 200 with a body that
\* decodes, and whose failure ends the scrape
Collect_authenticate ==
    /\ pc = "idle"
    /\ IF TokenMode
       THEN /\ pc' = "nodes"
            /\ UNCHANGED <<ticket, csrf, posts, nfail>>
       ELSE \E o \in Outcomes :
            /\ MayHave(o)
            /\ posts' = posts + 1
            /\ nfail' = Failures(o)
            /\ IF o = "ok"
               THEN /\ ticket' = TicketOf(posts + 1)
                    /\ csrf' = CSRFOf(posts + 1)
                    /\ pc' = "nodes"
               ELSE /\ pc' = "returned"
                    /\ UNCHANGED <<ticket, csrf>>
    /\ logged' = IF pc' = "returned"
                 THEN Append(logged, "Error during authentication") ELSE logged
    /\ UNCHANGED <<session, described, host, collected, prefetched, cfg, up, nodes, guests, workers, requests, samples, backups,
                   localBackups, totalGuests>>

\* Collect going on to the guest inventory with no nodes after GET /nodes has
\* failed
Collect_fetchNodes_goesOn ==
    /\ pc = "nodes"
    /\ \E o \in Outcomes :
        /\ MayHave(o)
        /\ nfail' = Failures(o)
        /\ requests' = ApiRequest("Collect", PathNodes, o)
        /\ nodes' = IF o = "ok" THEN up.nodes ELSE nodes
        /\ logged' = CASE o = "ok" -> logged
                        [] o = "error" -> Append(logged, "Error fetching nodes")
                        [] o = "badbody" -> Append(logged, "Error unmarshaling nodes")
    /\ pc' = "resources"
    /\ UNCHANGED <<session, described, host, collected, prefetched, cfg, ticket, csrf, up, guests, workers, posts,
                   samples, backups, localBackups, totalGuests>>

\* Collect, collect.go:20-42: GET /nodes once; an error or a body that does not
\* parse ends the scrape
Collect_fetchNodes ==
    /\ pc = "nodes"
    /\ \E o \in Outcomes :
        /\ MayHave(o)
        /\ nfail' = Failures(o)
        /\ requests' = ApiRequest("Collect", PathNodes, o)
        /\ IF o = "ok"
           THEN nodes' = up.nodes /\ pc' = "resources"
           ELSE nodes' = nodes /\ pc' = "returned"
        /\ logged' = CASE o = "ok" -> logged
                        [] o = "error" -> Append(logged, "Error fetching nodes")
                        [] o = "badbody" -> Append(logged, "Error unmarshaling nodes")
    /\ UNCHANGED <<session, described, host, collected, prefetched, cfg, ticket, csrf, up, guests, workers, posts, samples, backups,
                   localBackups, totalGuests>>

\* Collect, collect.go:44-64: GET /cluster/resources?type=vm once; the inventory
\* stays empty when the request fails or the body does not parse
Collect_fetchGuests ==
    /\ pc = "resources"
    /\ \E o \in Outcomes :
        /\ MayHave(o)
        /\ nfail' = Failures(o)
        /\ requests' = ApiRequest("Collect", PathResources, o)
        /\ guests' = IF o = "ok" THEN InventoryOf(EmptyMap, UpstreamResources)
                     ELSE EmptyMap
        /\ prefetched' = (o = "ok")
        /\ pc' = "fanout"
    /\ UNCHANGED <<session, described, host, collected, logged, cfg, ticket, csrf, up, nodes, workers, posts, samples, backups,
                   localBackups, totalGuests>>

\* ---------------------------------------------------------- guest metrics
GuestLabels(n, vmid) == <<n, FormatInt(vmid), GuestName(vmid)>>

\* the diskread/diskwrite value of a guest: 1 in the listing, 2 in status/current
DiskIO(fromDetail) == IF fromDetail THEN 2 ELSE 1

\* the samples of one guest built from its list entry (part_004:483-538);
\* detailed tells whether status/current was fetched and parsed
GuestListSamples(n, kind, vmid, status, detailed) ==
    LET
        VMListDescs ==
            <<"vmUptime", "vmCPU", "vmCPUs", "vmMemory", "vmMaxMemory", "vmMaxDisk",
              "vmNetIn", "vmNetOut">>
    IN
    LET
        LXCListDescs ==
            <<"lxcUptime", "lxcCPU", "lxcCPUs", "lxcMemory", "lxcMaxMemory", "lxcDisk",
              "lxcMaxDisk", "lxcNetIn", "lxcNetOut">>
    IN
    LET labels == GuestLabels(n, vmid)
        up1 == IF status = "running" THEN 1 ELSE 0
    IN IF kind = "lxc"
       THEN <<Sample("lxcStatus", up1, labels)>> \o Each(LXCListDescs, labels)
            \o <<Sample("lxcDiskRead", DiskIO(detailed), labels),
                 Sample("lxcDiskWrite", DiskIO(detailed), labels)>>
       ELSE <<Sample("vmStatus", up1, labels)>> \o Each(VMListDescs, labels)
            \o <<Sample("vmDiskRead", DiskIO(detailed), labels),
                 Sample("vmDiskWrite", DiskIO(detailed), labels)>>

\* the pressure samples of a container from field i on, cut short at the first
\* string that does not parse
RECURSIVE LXCPressureSamples_stopAtError(_, _, _)
LXCPressureSamples_stopAtError(labels, psi, i) ==
    IF i > Len(psi) \/ ~ParseFloat(psi[i]).ok THEN <<>>
    ELSE <<Sample(LXCDetailDescs[4 + i], ParseFloat(psi[i]).val, labels)>>
         \o LXCPressureSamples_stopAtError(labels, psi, i + 1)

\* the pressure samples of a container from field i on (part_004:580-598):
\* each string goes through strconv.ParseFloat and is sent when err == nil
RECURSIVE LXCPressureSamples(_, _, _)
LXCPressureSamples(labels, psi, i) ==
    IF i > Len(psi) THEN <<>>
    ELSE (IF ParseFloat(psi[i]).ok
          THEN <<Sample(LXCDetailDescs[4 + i], ParseFloat(psi[i]).val, labels)>>
          ELSE <<>>)
         \o LXCPressureSamples(labels, psi, i + 1)

\* collectLXCSwapMetricsFromData (part_004:549-599) on a body that parses:
\* swap, maxswap, HA managed and PID, then the pressure samples
LXCDetailSamples(labels, psi) ==
    Each(SubSeq(LXCDetailDescs, 1, 4), labels) \o LXCPressureSamples(labels, psi, 1)

\* the entry of a guest in the upstream's listing of its node and kind
GuestEntry(n, kind, vmid) ==
    CHOOSE g \in Range(up.guests[n][kind]) : g.vmid = vmid

\* collectVMDetailedMetricsFromData (part_004:601-690) on a body that parses,
\* with one block device and one NIC
VMDetailSamples(labels) ==
    LET
        VMDetailDescs ==
            <<"vmBalloon", "vmFreeMem", "vmHAManaged", "vmPID", "vmMemHost",
              "vmPressureCPUFull", "vmPressureCPUSome", "vmPressureIOFull",
              "vmPressureIOSome", "vmPressureMemoryFull", "vmPressureMemorySome",
              "vmBalloonActual", "vmBalloonMaxMem", "vmBalloonTotalMem",
              "vmBalloonMajorFaults", "vmBalloonMinorFaults", "vmBalloonMemSwappedIn",
              "vmBalloonMemSwappedOut">>
    IN
    LET
        VMNICDescs == <<"vmNICNetIn", "vmNICNetOut">>
    IN
    LET
        VMBlockDescs ==
            <<"vmBlockReadBytes", "vmBlockWriteBytes", "vmBlockReadOps", "vmBlockWriteOps",
              "vmBlockFailedRead", "vmBlockFailedWrite", "vmBlockFlushOps">>
    IN
    Each(VMDetailDescs, labels)
    \o Each(VMBlockDescs, Append(labels, "scsi0"))
    \o Each(VMNICDescs, Append(labels, "net0"))

\* the detail samples of one guest from detailData (part_004:526, 540)
GuestDetailSamples(n, kind, vmid) ==
    IF kind = "lxc"
    THEN LXCDetailSamples(GuestLabels(n, vmid), GuestEntry(n, kind, vmid).psi)
    ELSE VMDetailSamples(GuestLabels(n, vmid))

\* status/current fetched for every guest, whatever its status
FetchesDetailAlways(status) == status \in GuestStatuses

\* whether the per-guest goroutine fetches status/current (part_004:494)
FetchesDetail(status) == status = "running"

CountDesc(kind) == IF kind = "qemu" THEN "nodeVMCount" ELSE "nodeLXCCount"

\* the per-node goroutine of collectVMMetricsWithNodes calls
\* collectResourceMetrics (part_004:428-458): GET /nodes/{node}/{kind}; on
\* success one goroutine per listed guest is started, on failure the count 0 is
\* emitted and the goroutine goes on
collectResourceMetrics ==
    \E w \in workers, o \in Outcomes :
        /\ w.fn = "collectVMMetricsWithNodes"
        /\ w.st \in Kinds
        /\ MayHave(o)
        /\ nfail' = Failures(o)
        /\ requests' = ApiRequest(w.fn, PathGuestList(w.node, w.st), o)
        /\ IF o = "ok"
           THEN /\ workers' = (workers \ {w})
                      \cup {[w EXCEPT !.kind = w.st, !.st = "wait"]}
                      \cup {Worker(w.sub, "collectResourceMetrics", w.node, w.st,
                                   g.vmid, 0, g.status) :
                               g \in Range(up.guests[w.node][w.st])}
                /\ samples' = samples
           ELSE /\ samples' = Emit(samples, <<Sample(CountDesc(w.st), 0, <<w.node>>)>>)
                /\ workers' = IF w.st = "qemu"
                              THEN (workers \ {w}) \cup {[w EXCEPT !.st = "lxc"]}
                              ELSE workers \ {w}
        /\ UNCHANGED <<session, described, host, collected, logged, prefetched, cfg, ticket, csrf, up, pc, nodes, guests, posts, backups,
                       localBackups, totalGuests>>

\* the goroutine of one guest returning when status/current fails, before it
\* has sent anything
collectResourceMetrics_guest_returnsOnError ==
    \E w \in workers, o \in Outcomes :
        /\ w.fn = "collectResourceMetrics"
        /\ IF FetchesDetail(w.st)
           THEN /\ MayHave(o)
                /\ nfail' = Failures(o)
                /\ requests' = ApiRequest(w.fn, PathStatusCurrent(w.node, w.kind, w.vmid), o)
                /\ samples' =
                     IF o = "ok"
                     THEN Emit(samples,
                               GuestListSamples(w.node, w.kind, w.vmid, w.st, TRUE)
                               \o GuestDetailSamples(w.node, w.kind, w.vmid))
                     ELSE samples
           ELSE /\ o = "ok"
                /\ samples' = Emit(samples,
                                   GuestListSamples(w.node, w.kind, w.vmid, w.st, FALSE))
                /\ UNCHANGED <<nfail, requests>>
        /\ workers' = workers \ {w}
        /\ UNCHANGED <<session, described, host, collected, logged, prefetched, cfg, ticket, csrf,
                       up, pc, nodes, guests, posts, backups, localBackups, totalGuests>>

\* the goroutine of one guest (part_004:465-542): status/current is fetched
\* when the guest runs, then the list samples and the detail samples are sent
collectResourceMetrics_guest ==
    \E w \in workers, o \in Outcomes :
        /\ w.fn = "collectResourceMetrics"
        /\ IF FetchesDetail(w.st)
           THEN /\ MayHave(o)
                /\ nfail' = Failures(o)
                /\ requests' = ApiRequest(w.fn, PathStatusCurrent(w.node, w.kind, w.vmid), o)
                /\ samples' =
                     Emit(samples,
                          GuestListSamples(w.node, w.kind, w.vmid, w.st, o = "ok")
                          \o (IF o = "ok"
                              THEN GuestDetailSamples(w.node, w.kind, w.vmid)
                              ELSE <<>>))
           ELSE /\ o = "ok"
                /\ samples' = Emit(samples,
                                   GuestListSamples(w.node, w.kind, w.vmid, w.st, FALSE))
                /\ UNCHANGED <<nfail, requests>>
        /\ workers' = workers \ {w}
        /\ UNCHANGED <<session, described, host, collected, logged, prefetched, cfg, ticket, csrf, up, pc, nodes, guests, posts, backups,
                       localBackups, totalGuests>>

\* collectResourceMetrics returns from wg.Wait (part_004:545-546) and the
\* per-node goroutine sends the count (part_004:416-421)
collectVMMetricsWithNodes_count ==
    \E w \in workers :
        /\ w.fn = "collectVMMetricsWithNodes"
        /\ w.st = "wait"
        /\ Children(workers, "collectResourceMetrics", w.node, w.kind) = {}
        /\ samples' = Emit(samples,
                           <<Sample(CountDesc(w.kind),
                                    Len(up.guests[w.node][w.kind]), <<w.node>>)>>)
        /\ workers' = IF w.kind = "qemu"
                      THEN (workers \ {w}) \cup {[w EXCEPT !.kind = "", !.st = "lxc"]}
                      ELSE workers \ {w}
        /\ UNCHANGED <<session, described, host, collected, logged, prefetched, cfg, ticket, csrf, up, pc, nodes, guests, requests, posts,
                       nfail, backups, localBackups, totalGuests>>

\* ----------------------------------------------- per-node leaf goroutines
\* the functions whose per-node goroutine sends one request and emits from it
LeafWorkers ==
    {"collectNodeDetailedMetrics", "collectStorageMetrics",
     "collectZFSPoolMetricsWithNodes", "collectCertificateMetrics"}

\* the storage sub-collector listing the nodes itself
LeafPathRefetch(fn, n) ==
    CASE fn = "collectNodeDetailedMetrics" -> Path("/nodes/%s/status", n, "", 0, 0)
      [] fn = "collectStorageMetrics" -> PathNodes
      [] fn = "collectZFSPoolMetricsWithNodes" -> Path("/nodes/%s/disks/zfs", n, "", 0, 0)
      [] fn = "collectCertificateMetrics" ->
            Path("/nodes/%s/certificates/info", n, "", 0, 0)

LeafPath(fn, n) ==
    CASE fn = "collectNodeDetailedMetrics" -> Path("/nodes/%s/status", n, "", 0, 0)
      [] fn = "collectStorageMetrics" -> Path("/nodes/%s/storage", n, "", 0, 0)
      [] fn = "collectZFSPoolMetricsWithNodes" -> Path("/nodes/%s/disks/zfs", n, "", 0, 0)
      [] fn = "collectCertificateMetrics" ->
            Path("/nodes/%s/certificates/info", n, "", 0, 0)

\* what collectNodeDetailedMetrics sends from a body that parses
\* (part_004:791-828): the load samples, iowait and idle, the CPU frequency
\* when its string parses, then rootfs, cores, sockets, KSM and swap
NodeStatusSamples(n, st) ==
    LET
        \* the load samples of a node status (part_004:791-802): nothing when the
        \* loadavg array holds fewer than three strings, else each of the first three
        \* goes through strconv.ParseFloat and is sent when err == nil
        LoadSamples(loadavg) ==
            IF Len(loadavg) >= 3
            THEN FlatMap(LAMBDA i : IF ParseFloat(loadavg[i]).ok
                                    THEN <<Sample(NodeStatusDescs[i],
                                                  ParseFloat(loadavg[i]).val, <<n>>)>>
                                    ELSE <<>>,
                         <<1, 2, 3>>)
            ELSE <<>>
    IN
    LoadSamples(st.loadavg)
    \o Each(SubSeq(NodeStatusDescs, 4, 5), <<n>>)
    \o (IF ParseFloat(st.mhz).ok
        THEN <<Sample(NodeStatusDescs[6], ParseFloat(st.mhz).val, <<n>>)>>
        ELSE <<>>)
    \o Each(SubSeq(NodeStatusDescs, 7, Len(NodeStatusDescs)), <<n>>)

\* what the goroutine emits from a body that parses: the node status
\* (part_004:791-828), one storage (collect.go:170-179), one pool (zfs.go:54-65),
\* one certificate (zfs.go:313-325)
LeafSamples(fn, n) ==
    LET
        ZFSPoolDescs ==
            <<"zfsPoolHealth", "zfsPoolSize", "zfsPoolAlloc", "zfsPoolFree", "zfsPoolFrag">>
    IN
    CASE fn = "collectNodeDetailedMetrics" -> NodeStatusSamples(n, up.status[n])
      [] fn = "collectStorageMetrics" -> Each(StorageDescs, <<n, "local", "dir">>)
      [] fn = "collectZFSPoolMetricsWithNodes" -> Each(ZFSPoolDescs, <<n, "rpool">>)
      [] fn = "collectCertificateMetrics" -> Each(<<"certificateExpiry">>, <<n>>)

\* a per-node goroutine that goes on to the emission after a failed request,
\* with the zero values of the result it did not fill
perNodeWorker_noReturn ==
    \E w \in workers, o \in Outcomes :
        /\ w.fn \in LeafWorkers
        /\ MayHave(o)
        /\ nfail' = Failures(o)
        /\ requests' = ApiRequest(w.fn, LeafPath(w.fn, w.node), o)
        /\ samples' = Emit(samples, LeafSamples(w.fn, w.node))
        /\ workers' = workers \ {w}
        /\ UNCHANGED <<session, described, host, collected, logged, prefetched, cfg, ticket, csrf,
                       up, pc, nodes, guests, posts, backups, localBackups, totalGuests>>

\* the per-node goroutine of collectNodeMetricsWithNodes (part_004:743-746),
\* collectStorageMetrics (collect.go:141-180), collectZFSPoolMetricsWithNodes
\* (zfs.go:28-66) and collectCertificateMetrics (zfs.go:290-326)
perNodeWorker ==
    \E w \in workers, o \in Outcomes :
        /\ w.fn \in LeafWorkers
        /\ MayHave(o)
        /\ nfail' = Failures(o)
        /\ requests' = ApiRequest(w.fn, LeafPath(w.fn, w.node), o)
        /\ samples' = IF o = "ok" THEN Emit(samples, LeafSamples(w.fn, w.node))
                      ELSE samples
        /\ workers' = workers \ {w}
        /\ UNCHANGED <<session, described, host, collected, logged, prefetched, cfg, ticket, csrf, up, pc, nodes, guests, posts, backups,
                       localBackups, totalGuests>>

\* ---------------------------------------------------- host sub-collectors
Hostname == "pvehost"

\* the hit ratio sent whatever the sum of hits and misses
hitRatioPercent_unguarded(hits, misses) ==
    <<Sample("zfsARCHitRatio",
             IF hits + misses = 0 THEN 0 ELSE (hits * 10000) \div (hits + misses),
             <<Hostname>>)>>

\* the end of collectZFSARCMetrics (zfs.go:133-138): with a positive total of
\* hits and misses, one sample of (hits / total) * 100, in hundredths
hitRatioPercent(hits, misses) ==
    LET total == hits + misses
    IN  IF total > 0
        THEN <<Sample("zfsARCHitRatio", (hits * 10000) \div total, <<Hostname>>)>>
        ELSE <<>>

\* collectZFSMetricsWithNodes (zfs.go:17-20) after its pool goroutines have
\* finished: collectZFSARCMetrics (zfs.go:80-139) opens the arcstats file and
\* reads it line by line. A line is the sequence of its fields; a line with fewer
\* than three fields or a third field that does not parse is skipped, a line
\* whose first field has a handler sends that handler's sample, and the last
\* values of hits and misses give the hit ratio in percent when their sum is
\* positive
collectZFSARCMetrics ==
    LET
        \* the descriptor of the handler of a name, "" for a name without handler
        handlers(name) ==
            CASE name = "size" -> "zfsARCSize"
              [] name = "c_min" -> "zfsARCMinSize"
              [] name = "c_max" -> "zfsARCMaxSize"
              [] name = "hits" -> "zfsARCHits"
              [] name = "misses" -> "zfsARCMisses"
              [] name = "c" -> "zfsARCTargetSize"
              [] name = "l2_hits" -> "zfsARCL2Hits"
              [] name = "l2_misses" -> "zfsARCL2Misses"
              [] name = "l2_size" -> "zfsARCL2Size"
              [] name = "l2_hdr_size" -> "zfsARCL2HeaderSize"
              [] OTHER -> ""
        RECURSIVE Scan(_, _, _, _)
        Scan(lines, hits, misses, sent) ==
            IF lines = <<>> THEN [hits |-> hits, misses |-> misses, sent |-> sent]
            ELSE LET fields == Head(lines)
                     name == fields[1]
                     value == ParseFloat(fields[3])
                 IN  IF Len(fields) < 3 THEN Scan(Tail(lines), hits, misses, sent)
                     ELSE IF ~value.ok THEN Scan(Tail(lines), hits, misses, sent)
                     ELSE IF handlers(name) = ""
                     THEN Scan(Tail(lines), hits, misses, sent)
                     ELSE Scan(Tail(lines),
                               IF name = "hits" THEN value.val ELSE hits,
                               IF name = "misses" THEN value.val ELSE misses,
                               Append(sent, Sample(handlers(name), value.val,
                                                   <<Hostname>>)))
        scan == Scan(host.arcstats, 0, 0, <<>>)
    IN
    \E w \in workers, o \in {"ok", "error"} :
        /\ w.fn = "collectZFSMetricsWithNodes"
        /\ \A c \in workers : c.fn # "collectZFSPoolMetricsWithNodes"
        /\ MayHave(o)
        /\ nfail' = Failures(o)
        /\ samples' = IF o = "ok" THEN Emit(samples, scan.sent \o hitRatioPercent(scan.hits, scan.misses))
                      ELSE samples
        /\ workers' = workers \ {w}
        /\ UNCHANGED <<session, described, host, collected, logged, prefetched, cfg, ticket, csrf, up, pc, nodes, guests, requests, posts,
                       backups, localBackups, totalGuests>>

\* parseSensorKey (sensors.go:32-47) on a key given as its characters: the
\* metric type a key of a sensor stands for, and whether it has priority
parseSensorKey(key) ==
    LET
        HasPrefix(x) == Len(key) >= Len(x) /\ SubSeq(key, 1, Len(x)) = x
        HasSuffix(x) ==
            Len(key) >= Len(x) /\ SubSeq(key, Len(key) - Len(x) + 1, Len(key)) = x
        input == <<"_", "i", "n", "p", "u", "t">>
        average == <<"_", "a", "v", "e", "r", "a", "g", "e">>
        power == <<"p", "o", "w", "e", "r">>
        Key(t, p) == [metricType |-> t, isPriority |-> p]
    IN
    IF HasPrefix(<<"t", "e", "m", "p">>) /\ HasSuffix(input) THEN Key("temp", TRUE)
    ELSE IF HasPrefix(<<"f", "a", "n">>) /\ HasSuffix(input) THEN Key("fan", TRUE)
    ELSE IF HasPrefix(<<"i", "n">>) /\ HasSuffix(input) THEN Key("in", TRUE)
    ELSE IF HasPrefix(power) /\ HasSuffix(input) THEN Key("power", TRUE)
    ELSE IF HasPrefix(power) /\ HasSuffix(average) THEN Key("power", FALSE)
    ELSE Key("", FALSE)

\* processSensor storing every relevant reading it visits
processSensor_lastVisitedWins(sensorMap) ==
    LET
        RECURSIVE Walk(_, _)
        Walk(entries, readings) ==
            IF entries = <<>> THEN readings
            ELSE LET e == Head(entries)
                     k == parseSensorKey(e.key)
                 IN  IF ~e.value.num \/ k.metricType = ""
                     THEN Walk(Tail(entries), readings)
                     ELSE Walk(Tail(entries), MapPut(readings, k.metricType, e.value.v))
    IN
    Walk(sensorMap, EmptyMap)

\* processSensor (sensors.go:64-86): the readings of one sensor, whose map is
\* given as its entries in the order the range statement visits them. An entry
\* whose value is no number or whose key is not relevant is skipped; a reading
\* is stored when its key has priority or no reading with priority is stored
processSensor(sensorMap) ==
    LET
        RECURSIVE Walk(_, _, _)
        Walk(entries, readings, hasPriority) ==
            IF entries = <<>> THEN readings
            ELSE LET e == Head(entries)
                     k == parseSensorKey(e.key)
                     had == /\ k.metricType \in DOMAIN hasPriority
                            /\ hasPriority[k.metricType]
                 IN  IF ~e.value.num \/ k.metricType = ""
                     THEN Walk(Tail(entries), readings, hasPriority)
                     ELSE IF k.isPriority \/ ~had
                     THEN Walk(Tail(entries),
                               MapPut(readings, k.metricType, e.value.v),
                               MapPut(hasPriority, k.metricType, k.isPriority))
                     ELSE Walk(Tail(entries), readings, hasPriority)
    IN
    Walk(sensorMap, EmptyMap, EmptyMap)

\* collectSensorsMetrics (sensors.go:89-130): `sensors -j`, whose output is a
\* list of chips, each with its adapter and its sensors; every reading of a
\* sensor is sent by emitSensorMetric (sensors.go:50-61) with the labels
\* hostname, chip, adapter and sensor
collectSensorsMetrics ==
    LET
        emitSensorMetric(metricType) ==
            CASE metricType = "temp" -> "sensorTemperature"
              [] metricType = "fan" -> "sensorFanRPM"
              [] metricType = "in" -> "sensorVoltage"
              [] metricType = "power" -> "sensorPower"
        ChipSamples(chip) ==
            LET SensorSamples(sensor) ==
                    LET readings == processSensor(sensor.map)
                        labels == <<Hostname, chip.name, chip.adapter, sensor.name>>
                        One(t) ==
                            IF t \in DOMAIN readings
                            THEN <<Sample(emitSensorMetric(t), readings[t], labels)>>
                            ELSE <<>>
                    IN  One("temp") \o One("fan") \o One("in") \o One("power")
            IN  FlatMap(SensorSamples, chip.sensors)
    IN
    \E w \in workers, o \in Outcomes :
        /\ w.fn = "collectSensorsMetrics"
        /\ MayHave(o)
        /\ nfail' = Failures(o)
        /\ samples' = IF o = "ok" THEN Emit(samples, FlatMap(ChipSamples, host.sensors))
                      ELSE samples
        /\ workers' = workers \ {w}
        /\ UNCHANGED <<session, described, host, collected, logged, prefetched, cfg, ticket, csrf, up, pc, nodes, guests, requests, posts,
                       backups, localBackups, totalGuests>>

\* collectDiskMetrics (disk.go:17-36) with one disk found by lsblk, whose
\* smartctl output is read by collectDiskSMART (disk.go:63-131)
collectDiskMetrics ==
    \E w \in workers, o \in Outcomes :
        /\ w.fn = "collectDiskMetrics"
        /\ MayHave(o)
        /\ nfail' = Failures(o)
        /\ samples' = IF o = "ok"
                      THEN Emit(samples,
                                Each(<<"diskHealth", "diskTemperature", "diskPowerOnHours",
                                       "diskDataWritten", "diskAvailableSpare",
                                       "diskPercentageUsed">>,
                                     <<Hostname, "nvme0n1", "model", "serial", "nvme">>))
                      ELSE samples
        /\ workers' = workers \ {w}
        /\ UNCHANGED <<session, described, host, collected, logged, prefetched, cfg, ticket, csrf, up, pc, nodes, guests, requests, posts,
                       backups, localBackups, totalGuests>>

\* ------------------------------------------------- cluster-wide collectors
PathClusterStatus == Path("/cluster/status", "", "", 0, 0)
PathHAResources == Path("/cluster/ha/resources", "", "", 0, 0)
PathReplication == Path("/cluster/replication", "", "", 0, 0)

ClusterDescs == <<"clusterQuorate", "clusterNodesTotal", "clusterNodesOnline">>
\* one element of the data of /cluster/status (zfs.go:162-170); a key the body
\* leaves out decodes to 0
ClusterItem(type, quorate, online, count) ==
    [Type |-> type, Quorate |-> quorate, Online |-> online, Nodes |-> count]

\* the loop over result.Data (zfs.go:178-196) from element i on: a cluster
\* entry sends its quorate and sets nodesTotal to its node count, a node entry
\* raises nodesTotal when it is 0 and counts itself when it is online
RECURSIVE ClusterWalk(_, _, _)
ClusterWalk(items, i, acc) ==
    IF i > Len(items) THEN acc
    ELSE LET item == items[i]
         IN ClusterWalk(items, i + 1,
                CASE item.Type = "cluster" ->
                        [acc EXCEPT !.out = Append(@, Sample(ClusterDescs[1],
                                                             item.Quorate, <<>>)),
                                    !.nodesTotal = item.Nodes,
                                    !.hasClusterEntry = TRUE]
                  [] item.Type = "node" ->
                        [acc EXCEPT !.nodesTotal = IF @ = 0 THEN @ + 1 ELSE @,
                                    !.nodesOnline = IF item.Online = 1 THEN @ + 1
                                                    ELSE @]
                  [] OTHER -> acc)

\* the samples collectClusterMetrics sends for a /cluster/status body that
\* parsed (zfs.go:176-204): the quorate of each cluster entry, quorate 1 when
\* there was none, then the two node counts
ClusterSamples(items) ==
    LET acc == ClusterWalk(items, 1, [out |-> <<>>, nodesTotal |-> 0,
                                      nodesOnline |-> 0, hasClusterEntry |-> FALSE])
    IN acc.out
       \o (IF ~acc.hasClusterEntry THEN <<Sample(ClusterDescs[1], 1, <<>>)>>
           ELSE <<>>)
       \o <<Sample(ClusterDescs[2], acc.nodesTotal, <<>>),
            Sample(ClusterDescs[3], acc.nodesOnline, <<>>)>>

\* collectClusterMetrics (zfs.go:155-237): /cluster/status, whose failure ends
\* the function, then /cluster/ha/resources, whose error still yields the two
\* HA samples
collectClusterMetrics ==
    LET
        HADescs == <<"haResourcesTotal", "haResourcesActive">>
    IN
    \E w \in workers, o \in Outcomes, ha \in Outcomes :
        /\ w.fn = "collectClusterMetrics"
        /\ MayHave(o)
        /\ IF o = "ok"
           THEN /\ MayHave(ha)
                /\ nfail' = Failures(ha)
                /\ requests' = ApiRequest(w.fn, PathClusterStatus, o)
                                 (+) SetToBag({Request(w.fn, PathHAResources,
                                                       Headers(ticket, csrf), ha)})
                /\ samples' = Emit(samples,
                                   ClusterSamples(up.cluster)
                                   \o (IF ha = "badbody" THEN <<>>
                                       ELSE Each(HADescs, <<>>)))
           ELSE /\ ha = "ok"
                /\ nfail' = Failures(o)
                /\ requests' = ApiRequest(w.fn, PathClusterStatus, o)
                /\ samples' = samples
        /\ workers' = workers \ {w}
        /\ UNCHANGED <<session, described, host, collected, logged, prefetched, cfg, ticket, csrf, up, pc, nodes, guests, posts, backups,
                       localBackups, totalGuests>>

\* collectReplicationMetrics (zfs.go:240-283) with one healthy job
collectReplicationMetrics ==
    \E w \in workers, o \in Outcomes :
        /\ w.fn = "collectReplicationMetrics"
        /\ MayHave(o)
        /\ nfail' = Failures(o)
        /\ requests' = ApiRequest(w.fn, PathReplication, o)
        /\ samples' = IF o = "ok"
                      THEN Emit(samples,
                                Each(<<"replicationLastSync", "replicationDuration",
                                       "replicationStatus">>, <<"101", "101-0">>))
                      ELSE samples
        /\ workers' = workers \ {w}
        /\ UNCHANGED <<session, described, host, collected, logged, prefetched, cfg, ticket, csrf, up, pc, nodes, guests, posts, backups,
                       localBackups, totalGuests>>

\* ------------------------------------------------------------------ backups
maxBatchLogFetches == 5

PathTaskLog(n, upid) == Path("/nodes/%s/tasks/%s/log?limit=1000000", n, "", 0, upid)

\* m[k] = v without the comparison against the value already kept
KeepLast(m, k, v) == MapPut(m, k, v)

\* if existing, ok := m[k]; !ok || v > existing { m[k] = v }
KeepLatest(m, k, v) == IF k \notin DOMAIN m \/ v > m[k] THEN MapPut(m, k, v) ELSE m

\* the first pass over the task list (backup.go:140-152): the backups map after
\* the single-guest tasks with status OK
RECURSIVE SingleBackups(_, _)
SingleBackups(m, tasks) ==
    IF tasks = <<>> THEN m
    ELSE LET t == Head(tasks)
         IN SingleBackups(IF t.Status = "OK" /\ t.ID # ""
                          THEN KeepLatest(m, t.ID, t.EndTime) ELSE m,
                          Tail(tasks))

\* the first pass keeping every batch job that ended OK
RECURSIVE BatchJobsUncapped(_, _)
BatchJobsUncapped(jobs, tasks) ==
    IF tasks = <<>> THEN jobs
    ELSE LET t == Head(tasks)
         IN BatchJobsUncapped(IF t.Status = "OK" /\ t.ID = "" /\ t.UPID # 0
                              THEN Append(jobs, t.UPID) ELSE jobs,
                              Tail(tasks))

\* the first pass over the task list (backup.go:140-152): the UPIDs kept for
\* log inspection, at most maxBatchLogFetches
RECURSIVE BatchJobs(_, _)
BatchJobs(jobs, tasks) ==
    IF tasks = <<>> THEN jobs
    ELSE LET t == Head(tasks)
         IN BatchJobs(IF t.Status = "OK" /\ t.ID = "" /\ t.UPID # 0
                         /\ Len(jobs) < maxBatchLogFetches
                      THEN Append(jobs, t.UPID) ELSE jobs,
                      Tail(tasks))

\* the date and time a log line gives as YYYY-MM-DD hh:mm:ss
Wall(Y, M, D, h, m, s) == [Y |-> Y, M |-> M, D |-> D, h |-> h, m |-> m, s |-> s]

NoWall == Wall(0, 0, 0, 0, 0, 0)

\* the seconds from 1970-01-01 00:00:00 to the date and time, both read on the
\* same clock
CivilSeconds(w) ==
    LET
        \* the days from 1970-01-01 to the date in the proleptic Gregorian calendar
        DaysFromCivil(y, m, d) ==
            LET yy == IF m <= 2 THEN y - 1 ELSE y
                era == yy \div 400
                yoe == yy - era * 400
                mp == (m + 9) % 12
                doy == (153 * mp + 2) \div 5 + d - 1
                doe == yoe * 365 + yoe \div 4 - yoe \div 100 + doy
            IN era * 146097 + doe - 719468
    IN
    DaysFromCivil(w.Y, w.M, w.D) * 86400 + w.h * 3600 + w.m * 60 + w.s

\* the record of one comparison against a backup map: the VMID, the timestamp
\* compared, and the task, or the line of the task's log, it was taken from
BackupRecord(vmid, ts, from, node, upid, wall) ==
    [vmid |-> vmid, ts |-> ts, from |-> from, node |-> node, upid |-> upid,
     wall |-> wall]

\* the first pass over the task list (backup.go:140-148): the tasks it compares
\* against the backups map
SingleRecords(n, tasks) ==
    {BackupRecord(t.ID, t.EndTime, "task", n, t.UPID, NoWall) :
        t \in {x \in Range(tasks) : x.Status = "OK" /\ x.ID # ""}}

\* the walk of parseBackupLog over the lines of one log (backup.go:205-237):
\* the local map after the walk, and the lines it has compared against the map.
\* A line is "Finished Backup of VM <vmid>" (finished), "Backup finished at
\* <date time>" (time), a line with "Backup finished at" and no date and time
\* after it (badtime), or anything else (other)
RECURSIVE ParseLog(_, _, _, _, _, _)
ParseLog(lines, currentVMID, foundCount, local, total, seen) ==
    LET
        \* time.Parse("2006-01-02 15:04:05", text) followed by t.Unix() (backup.go:220,
        \* 224): the layout names no zone, so the text is read as a time in UTC
        ParseUnix(w) == CivilSeconds(w)
    IN
    LET
        \* whether time.Parse accepts the fields: a month, a day of that month and a
        \* time of day in range
        ValidWall(w) ==
            LET
                DaysIn(y, m) ==
                    LET
                        IsLeap == (y % 4 = 0 /\ y % 100 # 0) \/ y % 400 = 0
                    IN
                    CASE m \in {4, 6, 9, 11} -> 30
                      [] m = 2 -> IF IsLeap THEN 29 ELSE 28
                      [] OTHER -> 31
            IN
            /\ w.M \in 1..12
            /\ w.D \in 1..DaysIn(w.Y, w.M)
            /\ w.h \in 0..23 /\ w.m \in 0..59 /\ w.s \in 0..59
    IN
    IF lines = <<>> THEN [local |-> local, seen |-> seen]
    ELSE LET line == Head(lines)
         IN IF line.t = "finished"
            THEN ParseLog(Tail(lines), line.vmid, foundCount, local, total, seen)
            ELSE IF currentVMID = "" \/ line.t # "time" \/ ~ValidWall(line.wall)
            THEN ParseLog(Tail(lines), currentVMID, foundCount, local, total, seen)
            ELSE LET timestamp == ParseUnix(line.wall)
                     newer == currentVMID \notin DOMAIN local
                              \/ timestamp > local[currentVMID]
                     local2 == IF newer THEN MapPut(local, currentVMID, timestamp)
                               ELSE local
                     found2 == IF newer THEN foundCount + 1 ELSE foundCount
                     seen2 == seen \cup {[vmid |-> currentVMID, wall |-> line.wall,
                                          ts |-> timestamp]}
                 IN IF found2 >= total THEN [local |-> local2, seen |-> seen2]
                    ELSE ParseLog(Tail(lines), "", found2, local2, total, seen2)

\* the merge of a node's local map into backups (backup.go:177-183)
RECURSIVE Merge(_, _, _)
Merge(m, local, keys) ==
    IF keys = {} THEN m
    ELSE LET k == CHOOSE x \in keys : TRUE
         IN Merge(KeepLatest(m, k, local[k]), local, keys \ {k})

\* emitBackupMetrics sending every timestamp on the descriptor of QEMU guests
BackupSamplesAsVM(bk, inventory) ==
    {Sample("vmLastBackup", bk[v], <<inventory[v].Node, v, inventory[v].Name>>) :
        v \in DOMAIN bk \cap DOMAIN inventory}

\* emitBackupMetrics (backup.go:241-254)
BackupSamples(bk, inventory) ==
    {Sample(IF inventory[v].Type = "qemu" THEN "vmLastBackup" ELSE "lxcLastBackup",
            bk[v], <<inventory[v].Node, v, inventory[v].Name>>) :
        v \in DOMAIN bk \cap DOMAIN inventory}

\* whether collectBackupMetricsWithGuests enumerates the guests itself
\* (backup.go:33)
NeedsFallback(inventory) == Cardinality(DOMAIN inventory) = 0

BackupWorker(fn, n, upid, st) ==
    Worker("collectBackupMetricsWithGuests", fn, n, "", 0, upid, st)

NodeBackupWorkers == {BackupWorker("collectNodeBackups", n, 0, "tasks") : n \in Range(nodes)}

\* one request of fetchNodeGuests (backup.go:73-111): /qemu, then /lxc; the
\* guests listed are added to the inventory
fetchNodeGuests ==
    \E w \in workers, o \in Outcomes :
        /\ w.fn = "fetchNodeGuests"
        /\ MayHave(o)
        /\ nfail' = Failures(o)
        /\ requests' = ApiRequest(w.fn, PathGuestList(w.node, w.st), o)
        /\ guests' = IF o = "ok" THEN InventoryOf(guests, GuestEntries(w.node, w.st))
                     ELSE guests
        /\ workers' = IF w.st = "qemu"
                      THEN (workers \ {w}) \cup {[w EXCEPT !.st = "lxc"]}
                      ELSE workers \ {w}
        /\ UNCHANGED <<session, described, host, collected, logged, prefetched, cfg, ticket, csrf, up, pc, nodes, posts, samples, backups,
                       localBackups, totalGuests>>

\* collectBackupMetricsWithGuests once fetchGuestsFallback has returned
\* (backup.go:37-51): totalGuests is taken, one goroutine per node is started
collectBackupMetricsWithGuests_nodes ==
    \E w \in workers :
        /\ w.fn = "collectBackupMetricsWithGuests"
        /\ w.st = "fallback"
        /\ \A c \in workers : c.fn # "fetchNodeGuests"
        /\ totalGuests' = Cardinality(DOMAIN guests)
        /\ workers' = (workers \ {w}) \cup {[w EXCEPT !.st = "nodes"]}
                      \cup NodeBackupWorkers
        /\ UNCHANGED <<session, described, host, collected, logged, prefetched, cfg, ticket, csrf, up, pc, nodes, guests, requests, posts,
                       samples, nfail, backups, localBackups>>

\* collectNodeBackups (backup.go:114-159): the task list, the first pass under
\* backupsMutex, one goroutine per batch job kept
collectNodeBackups ==
    LET
        PathTasks(n) == Path("/nodes/%s/tasks?typefilter=vzdump&limit=50", n, "", 0, 0)
    IN
    \E w \in workers, o \in Outcomes :
        /\ w.fn = "collectNodeBackups"
        /\ w.st = "tasks"
        /\ MayHave(o)
        /\ nfail' = Failures(o)
        /\ requests' = ApiRequest(w.fn, PathTasks(w.node), o)
        /\ IF o = "ok"
           THEN LET jobs == BatchJobs(<<>>, up.tasks[w.node])
                IN /\ backups' = SingleBackups(backups, up.tasks[w.node])
                   /\ collected' = collected \cup SingleRecords(w.node, up.tasks[w.node])
                   /\ workers' =
                        IF jobs = <<>> THEN workers \ {w}
                        ELSE (workers \ {w}) \cup {[w EXCEPT !.st = "batch"]}
                             \cup {BackupWorker("parseBackupLog", w.node, u, "log") :
                                      u \in Range(jobs)}
           ELSE /\ backups' = backups
                /\ collected' = collected
                /\ workers' = workers \ {w}
        /\ UNCHANGED <<session, described, host, logged, prefetched, cfg, ticket, csrf, up, pc, nodes, guests, posts, samples,
                       localBackups, totalGuests>>

\* parseBackupLog (backup.go:187-238): the log of one batch job
parseBackupLog ==
    \E w \in workers, o \in Outcomes :
        /\ w.fn = "parseBackupLog"
        /\ MayHave(o)
        /\ nfail' = Failures(o)
        /\ requests' = ApiRequest(w.fn, PathTaskLog(w.node, w.upid), o)
        /\ LET walk == ParseLog(up.logs[w.upid], "", 0, localBackups[w.node],
                                 totalGuests, {})
           IN IF o = "ok"
              THEN /\ localBackups' = [localBackups EXCEPT ![w.node] = walk.local]
                   /\ collected' = collected \cup
                        {BackupRecord(r.vmid, r.ts, "log", w.node, w.upid, r.wall) :
                            r \in walk.seen}
              ELSE UNCHANGED <<localBackups, collected>>
        /\ workers' = workers \ {w}
        /\ UNCHANGED <<session, described, host, logged, prefetched, cfg, ticket, csrf, up, pc, nodes, guests, posts, samples,
                       backups, totalGuests>>

\* processBatchBackupJobs after batchWg.Wait (backup.go:174-183): the merge
\* under backupsMutex
processBatchBackupJobs ==
    \E w \in workers :
        /\ w.fn = "collectNodeBackups"
        /\ w.st = "batch"
        /\ \A c \in workers : ~(c.fn = "parseBackupLog" /\ c.node = w.node)
        /\ backups' = Merge(backups, localBackups[w.node], DOMAIN localBackups[w.node])
        /\ workers' = workers \ {w}
        /\ UNCHANGED <<session, described, host, collected, logged, prefetched, cfg, ticket, csrf, up, pc, nodes, guests, requests, posts,
                       samples, nfail, localBackups, totalGuests>>

\* collectBackupMetricsWithGuests after wg.Wait (backup.go:52-55)
emitBackupMetrics ==
    \E w \in workers :
        /\ w.fn = "collectBackupMetricsWithGuests"
        /\ w.st = "nodes"
        /\ \A c \in workers : c.fn # "collectNodeBackups"
        /\ samples' = samples (+) SetToBag(BackupSamples(backups, guests))
        /\ workers' = workers \ {w}
        /\ UNCHANGED <<session, described, host, collected, logged, prefetched, cfg, ticket, csrf, up, pc, nodes, guests, requests, posts,
                       nfail, backups, localBackups, totalGuests>>

\* ------------------------------------------------------ fan-out and join
\* the goroutines Collect's ten `go` statements start (collect.go:69-120), each
\* taken up to its first request: the per-node goroutines of the sub-collectors
\* that loop over nodes, the basic node samples of collectNodeMetricsWithNodes
\* (part_004:727-739), and the first decision of the backup sub-collector
\* (backup.go:33-51)
PerNode(sub, fn, st) == {Worker(sub, fn, n, "", 0, 0, st) : n \in Range(nodes)}

Single(fn, st) == {Worker(fn, fn, "", "", 0, 0, st)}

BackupStart ==
    IF NeedsFallback(guests)
    THEN {BackupWorker("collectBackupMetricsWithGuests", "", 0, "fallback")}
         \cup {BackupWorker("fetchNodeGuests", n, 0, "qemu") : n \in Range(nodes)}
    ELSE {BackupWorker("collectBackupMetricsWithGuests", "", 0, "nodes")}
         \cup NodeBackupWorkers

Started ==
    PerNode("collectNodeMetricsWithNodes", "collectNodeDetailedMetrics", "request")
    \cup PerNode("collectVMMetricsWithNodes", "collectVMMetricsWithNodes", "qemu")
    \cup PerNode("collectStorageMetrics", "collectStorageMetrics", "request")
    \cup Single("collectZFSMetricsWithNodes", "pools")
    \cup PerNode("collectZFSMetricsWithNodes", "collectZFSPoolMetricsWithNodes", "request")
    \cup Single("collectSensorsMetrics", "run")
    \cup Single("collectDiskMetrics", "run")
    \cup BackupStart
    \cup Single("collectClusterMetrics", "status")
    \cup Single("collectReplicationMetrics", "request")
    \cup PerNode("collectCertificateMetrics", "collectCertificateMetrics", "request")

NodeListSamples(n) ==
    LET
        NodeListDescs ==
            <<"nodeUp", "nodeUptime", "nodeCPULoad", "nodeCPUs", "nodeMemoryTotal",
              "nodeMemoryUsed", "nodeMemoryFree">>
    IN
    Each(NodeListDescs, <<n>>)

Collect_fanOut ==
    /\ pc = "fanout"
    /\ workers' = Started
    /\ samples' = Emit(samples, FlatMap(NodeListSamples, nodes))
    /\ totalGuests' = IF NeedsFallback(guests) THEN totalGuests
                      ELSE Cardinality(DOMAIN guests)
    /\ pc' = "wait"
    /\ UNCHANGED <<session, described, host, collected, logged, prefetched, cfg, ticket, csrf, up, nodes, guests, requests, posts, nfail,
                   backups, localBackups>>

\* a wait group that misses the backup sub-collector
AwaitedButBackups == SubCollectors \ {"collectBackupMetricsWithGuests"}

\* the sub-collectors wg.Wait waits for (collect.go:69, 122)
Awaited == SubCollectors

\* Collect, collect.go:122-123: wg.Wait returns once the ten goroutines have
\* called wg.Done, and Collect returns
Collect_wait ==
    /\ pc = "wait"
    /\ \A s \in Awaited : ~Live(workers, s)
    /\ pc' = "returned"
    /\ UNCHANGED <<session, described, host, collected, logged, prefetched, cfg, ticket, csrf, up, nodes, guests, workers, requests, posts,
                   samples, nfail, backups, localBackups, totalGuests>>

\* ------------------------------------------------------------- the upstream
AllNodes == {NodeName(i) : i \in 1..MaxNodes}
NodeLists == {[i \in 1..k |-> NodeName(i)] : k \in 0..MaxNodes}

\* "Finished Backup of VM <vmid>"
FinishedLine(vmid) == [t |-> "finished", vmid |-> vmid, wall |-> NoWall]

\* "Backup finished at <date time>"
TimeLine(wall) == [t |-> "time", vmid |-> "", wall |-> wall]

Upstream(ns, gs) ==
    LET
        \* /cluster/status of a healthy deployment: the cluster entry with the node
        \* count, then every node online; a single node has no cluster entry
        ClusterStatus ==
            (IF Len(ns) > 1 THEN <<ClusterItem("cluster", 1, 0, Len(ns))>> ELSE <<>>)
            \o [i \in DOMAIN ns |-> ClusterItem("node", 0, 1, 0)]
    IN
    LET
        \* the vzdump tasks of a node: one single-guest task per QEMU guest and, when
        \* the node has containers, one batch job whose log names each container
        TasksOf(n, g) ==
            [i \in DOMAIN g["qemu"] |->
                [ID |-> FormatInt(g["qemu"][i].vmid), UPID |-> 1000 + g["qemu"][i].vmid,
                 EndTime |-> 1000 + i, Status |-> "OK"]]
            \o (IF g["lxc"] = <<>> THEN <<>>
                ELSE <<[ID |-> "", UPID |-> NodeIndex(n), EndTime |-> 2000, Status |-> "OK"]>>)
    IN
    LET
        LogsOf ==
            LET
                LogLines(g) ==
                    <<FinishedLine(FormatInt(g.vmid)), TimeLine(Wall(2024, 1, 15, 3, 52, 10))>>
            IN
            [u \in {NodeIndex(n) : n \in AllNodes} |->
                          FlatMap(LogLines, gs[NodeName(u)]["lxc"])]
    IN
    [nodes |-> ns, guests |-> gs, cluster |-> ClusterStatus,
     status |-> [n \in AllNodes |-> HealthyNodeStatus],
     tasks |-> [n \in AllNodes |-> TasksOf(n, gs[n])],
     logs |-> LogsOf]

\* the guests of every node of the cluster; a node outside the cluster has none
GuestMaps(ns) ==
    LET
        \* the statuses of the guests of one listing, up to MaxGuests of them
        StatusLists == UNION {[1..k -> GuestStatuses] : k \in 0..MaxGuests}
    IN
    {[n \in AllNodes |-> [k \in Kinds |-> GuestList(NodeIndex(n), k, sts[n][k])]] :
        sts \in {x \in [AllNodes -> [Kinds -> StatusLists]] :
                    \A n \in AllNodes \ Range(ns), k \in Kinds : x[n][k] = <<>>}}

\* the upstreams whose /nodes listing is one of lists
Upstreams(lists) == UNION {{Upstream(ns, gs) : gs \in GuestMaps(ns)} : ns \in lists}

Configs ==
    LET
        TokenSecrets == {"", "s3cr3t"}
    IN
    LET
        TokenIDs == {"", "root@pam!tok"}
    IN
    [TokenID : TokenIDs, TokenSecret : TokenSecrets]

\* a cluster whose nodes have no guests, or on each node one running QEMU
\* guest and one stopped container
PlainUpstreams(lists) ==
    {u \in Upstreams(lists) :
        \A n \in AllNodes :
            /\ Len(u.guests[n]["qemu"]) = Len(u.guests[n]["lxc"])
            /\ Len(u.guests[n]["qemu"]) \in {0, 1}
            /\ \A g \in Range(u.guests[n]["qemu"]) : g.status = "running"
            /\ \A g \in Range(u.guests[n]["lxc"]) : g.status = "stopped"}

\* the collector after NewProxmoxCollector, before the first scrape
Init ==
    LET
        \* password mode with no token configured
        PasswordConfigs == {c \in Configs : c.TokenID = "" /\ c.TokenSecret = ""}
    IN
    /\ cfg \in PasswordConfigs
    /\ up \in PlainUpstreams(NodeLists)
    /\ ticket = ""
    /\ csrf = ""
    /\ pc = "register"
    /\ nodes = <<>>
    /\ guests = EmptyMap
    /\ workers = {}
    /\ requests = EmptyBag
    /\ posts = 0
    /\ samples = EmptyBag
    /\ nfail = 0
    /\ backups = EmptyMap
    /\ localBackups = [n \in AllNodes |-> EmptyMap]
    /\ totalGuests = 0
    /\ logged = <<>>
    /\ prefetched = FALSE
    /\ mutex = [writer |-> 0, readers |-> {}]
    /\ sess = <<>>
    /\ host = UTCHost
    /\ described = <<>>
    /\ collected = {}

Next ==
    \/ Describe
    \/ Collect_authenticate
    \/ Collect_fetchNodes
    \/ Collect_fetchGuests
    \/ Collect_fanOut
    \/ Collect_wait
    \/ perNodeWorker
    \/ collectResourceMetrics
    \/ collectResourceMetrics_guest
    \/ collectVMMetricsWithNodes_count
    \/ collectZFSARCMetrics
    \/ collectSensorsMetrics
    \/ collectDiskMetrics
    \/ collectClusterMetrics
    \/ collectReplicationMetrics
    \/ fetchNodeGuests
    \/ collectBackupMetricsWithGuests_nodes
    \/ collectNodeBackups
    \/ parseBackupLog
    \/ processBatchBackupJobs
    \/ emitBackupMetrics

Spec == Init /\ [][Next]_vars

\* ------------------------------------------ disk SMART through the API
\* disks one /nodes/{node}/disks/list listing may hold
MaxDisks == 2

\* strconv.ParseFloat of a string of decimal digits, given as its digits
RECURSIVE ParseDigits(_, _)
ParseDigits(acc, ds) ==
    IF ds = <<>> THEN acc ELSE ParseDigits(10 * acc + Head(ds), Tail(ds))

\* the digits before the first comma
StripCommas_upToComma(groups) == Head(groups)

\* strings.ReplaceAll(m[1], ",", "") on a number given as its comma-separated
\* groups of digits
RECURSIVE StripCommas(_)
StripCommas(groups) ==
    IF groups = <<>> THEN <<>> ELSE Head(groups) \o StripCommas(Tail(groups))

\* a line of SMART text "<key>:   <number><rest>", the number given as its
\* comma-separated groups of digits
TextLine(key, groups, rest) == [key |-> key, groups |-> groups, rest |-> rest]

\* ^Key:\s+(\d+)<unit> matches: one group of at least one digit, then the unit
MatchesPlain(line, key, unit) ==
    line.key = key /\ Len(line.groups) = 1 /\ line.groups[1] # <<>>
    /\ line.rest = unit

\* ^Key:\s+([\d,]+) matches: the key and at least one digit or comma
MatchesGrouped(line, key) ==
    line.key = key /\ (Len(line.groups) > 1 \/ line.groups[1] # <<>>)

\* what parseNVMeSmartText sends for one line (part_006:170-196)
NVMeLineSamples(line, labels) ==
    (IF MatchesPlain(line, "Temperature", " Celsius")
     THEN <<Sample("diskTemperature", ParseDigits(0, line.groups[1]), labels)>>
     ELSE <<>>)
    \o (IF MatchesPlain(line, "Available Spare", "%")
        THEN <<Sample("diskAvailableSpare", ParseDigits(0, line.groups[1]), labels)>>
        ELSE <<>>)
    \o (IF MatchesPlain(line, "Percentage Used", "%")
        THEN <<Sample("diskPercentageUsed", ParseDigits(0, line.groups[1]), labels)>>
        ELSE <<>>)
    \o (IF MatchesGrouped(line, "Data Units Written") /\ StripCommas(line.groups) # <<>>
        THEN <<Sample("diskDataWritten",
                      ParseDigits(0, StripCommas(line.groups)) * 524288, labels)>>
        ELSE <<>>)
    \o (IF MatchesGrouped(line, "Power On Hours") /\ StripCommas(line.groups) # <<>>
        THEN <<Sample("diskPowerOnHours",
                      ParseDigits(0, StripCommas(line.groups)), labels)>>
        ELSE <<>>)

\* parseNVMeSmartText (part_006:165-198)
RECURSIVE parseNVMeSmartText(_, _)
parseNVMeSmartText(text, labels) ==
    IF text = <<>> THEN <<>>
    ELSE NVMeLineSamples(Head(text), labels) \o parseNVMeSmartText(Tail(text), labels)

\* what parseATASmartAttrs sends for one attribute (part_006:141-160)
ATAAttrSamples(attr, labels) ==
    LET
        \* parseFirstNumber (part_006:58-68) on a raw value given as its fields, each
        \* a number or not
        parseFirstNumber(raw) ==
            IF raw = <<>> THEN -1
            ELSE IF raw[1].num THEN raw[1].v ELSE -1
    IN
    LET v == parseFirstNumber(attr.Raw)
    IN CASE attr.Name \in {"Temperature_Celsius", "Drive_Temperature"} ->
              IF v >= 0 THEN <<Sample("diskTemperature", v, labels)>> ELSE <<>>
         [] attr.Name = "Power_On_Hours" ->
              IF v >= 0 THEN <<Sample("diskPowerOnHours", v, labels)>> ELSE <<>>
         [] attr.Name = "Host_Writes_32MiB" ->
              IF attr.ID = "241" /\ v >= 0
              THEN <<Sample("diskDataWritten", v * 32 * 1024 * 1024, labels)>>
              ELSE <<>>
         [] attr.Name = "Available_Reservd_Space" ->
              <<Sample("diskAvailableSpare", attr.Normalized, labels)>>
         [] attr.Name = "Media_Wearout_Indicator" ->
              <<Sample("diskPercentageUsed", 100 - attr.Normalized, labels)>>
         [] OTHER -> <<>>

\* parseATASmartAttrs (part_006:137-162)
RECURSIVE parseATASmartAttrs(_, _)
parseATASmartAttrs(attrs, labels) ==
    IF attrs = <<>> THEN <<>>
    ELSE ATAAttrSamples(Head(attrs), labels) \o parseATASmartAttrs(Tail(attrs), labels)

DiskLabels(n, d) == <<n, d.DevPath, d.Model, d.Serial, d.Type>>

\* what collectNodeDiskSMART sends for one disk of the listing (part_006:89-101)
DiskListSamples(n, d) ==
    <<Sample("diskHealth", IF d.Health = "PASSED" THEN 1 ELSE 0, DiskLabels(n, d))>>
    \o (IF d.Wearout >= 0
        THEN <<Sample("diskPercentageUsed", 100 - d.Wearout, DiskLabels(n, d))>>
        ELSE <<>>)

\* what collectDiskSmartDetail sends from a body that parses (part_006:126-133)
DiskDetailSamples(n, d) ==
    CASE d.smart.Type = "text" -> parseNVMeSmartText(d.smart.Text, DiskLabels(n, d))
      [] d.smart.Type = "ata" -> parseATASmartAttrs(d.smart.Attributes, DiskLabels(n, d))
      [] OTHER -> <<>>

\* collectNodeDiskSMART (part_006:71-109): the disk listing, the samples of
\* each disk, one goroutine per disk
collectNodeDiskSMART ==
    LET
        PathDiskList(n) == Path("/nodes/%s/disks/list", n, "", 0, 0)
    IN
    \E w \in workers, o \in Outcomes :
        /\ w.fn = "collectNodeDiskSMART"
        /\ w.st = "list"
        /\ MayHave(o)
        /\ nfail' = Failures(o)
        /\ requests' = ApiRequest(w.fn, PathDiskList(w.node), o)
        /\ IF o = "ok"
           THEN /\ samples' = Emit(samples,
                                   FlatMap(LAMBDA d : DiskListSamples(w.node, d), up.disks))
                /\ workers' = (workers \ {w}) \cup {[w EXCEPT !.st = "wait"]}
                      \cup {Worker(w.sub, "collectDiskSmartDetail", w.node,
                                   up.disks[i].DevPath, i, 0, "request") :
                               i \in DOMAIN up.disks}
           ELSE /\ samples' = samples
                /\ workers' = workers \ {w}
        /\ UNCHANGED <<session, described, host, collected, logged, prefetched, cfg, ticket, csrf, up, pc, nodes,
                       guests, posts, backups, localBackups, totalGuests>>

\* collectDiskSmartDetail (part_006:114-134)
collectDiskSmartDetail ==
    LET
        PathDiskSmart(n, devpath) == Path("/nodes/%s/disks/smart?disk=%s", n, devpath, 0, 0)
    IN
    \E w \in workers, o \in Outcomes :
        /\ w.fn = "collectDiskSmartDetail"
        /\ MayHave(o)
        /\ nfail' = Failures(o)
        /\ requests' = ApiRequest(w.fn, PathDiskSmart(w.node, w.kind), o)
        /\ samples' = IF o = "ok"
                      THEN Emit(samples, DiskDetailSamples(w.node, up.disks[w.vmid]))
                      ELSE samples
        /\ workers' = workers \ {w}
        /\ UNCHANGED <<session, described, host, collected, logged, prefetched, cfg, ticket, csrf, up, pc, nodes,
                       guests, posts, backups, localBackups, totalGuests>>

\* collectNodeDiskSMART returns from wg.Wait (part_006:110)
collectNodeDiskSMART_wait ==
    \E w \in workers :
        /\ w.fn = "collectNodeDiskSMART"
        /\ w.st = "wait"
        /\ Children(workers, "collectDiskSmartDetail", w.node, w.kind) = {}
        /\ \A c \in workers : c.fn # "collectDiskSmartDetail"
        /\ workers' = workers \ {w}
        /\ UNCHANGED <<session, described, host, collected, logged, prefetched, cfg, ticket, csrf, up, pc, nodes,
                       guests, requests, posts, samples, nfail, backups, localBackups,
                       totalGuests>>

RawField(v) == [num |-> TRUE, v |-> v]
RawText == [num |-> FALSE, v |-> 0]

ATAAttr(id, name, raw, normalized) ==
    [ID |-> id, Name |-> name, Raw |-> raw, Normalized |-> normalized]

\* the i-th disk of a listing, with the answer to its SMART request
DisksAt(i) ==
    LET
        SmartResponses ==
            LET
                ATAAttributes ==
                    {<<>>,
                     <<ATAAttr("194", "Temperature_Celsius", <<RawField(31), RawText>>, 69),
                       ATAAttr("9", "Power_On_Hours", <<RawField(9672)>>, 98),
                       ATAAttr("241", "Host_Writes_32MiB", <<RawField(5)>>, 100),
                       ATAAttr("232", "Available_Reservd_Space", <<RawField(0)>>, 100),
                       ATAAttr("233", "Media_Wearout_Indicator", <<RawField(0)>>, 63)>>,
                     <<ATAAttr("194", "Temperature_Celsius", <<RawText>>, 69),
                       ATAAttr("225", "Host_Writes_32MiB", <<RawField(5)>>, 100)>>}
            IN
            LET
                \* the SMART answers of the API: NVMe text, ATA attributes, neither
                NVMeTexts ==
                    {<<>>,
                     <<TextLine("Temperature", <<<<7, 1>>>>, " Celsius"),
                       TextLine("Available Spare", <<<<1, 0, 0>>>>, "%"),
                       TextLine("Available Spare Threshold", <<<<1, 0>>>>, "%"),
                       TextLine("Percentage Used", <<<<3, 7>>>>, "%"),
                       TextLine("Data Units Written", <<<<1>>, <<2, 3, 4>>>>, " [632 MB]"),
                       TextLine("Power On Hours", <<<<9>>, <<6, 7, 2>>>>, ""),
                       TextLine("Temperature Sensor 1", <<<<7, 1>>>>, " Celsius")>>,
                     <<TextLine("Temperature", <<<<7, 1>>>>, " Celsius"),
                       TextLine("Data Units Written", <<<<>>, <<>>>>, ""),
                       TextLine("Data Units Written", <<<<4, 0, 9, 5>>>>, " [2.14 GB]")>>}
            IN
            {[Type |-> "text", Text |-> t, Attributes |-> <<>>] : t \in NVMeTexts}
            \cup {[Type |-> "ata", Text |-> <<>>, Attributes |-> a] : a \in ATAAttributes}
            \cup {[Type |-> "", Text |-> <<>>, Attributes |-> <<>>]}
    IN
    {[DevPath |-> "/dev/disk" \o FormatInt(i), Model |-> "model", Serial |-> "serial",
      Type |-> IF r.Type = "text" THEN "nvme" ELSE "ssd", Health |-> h, Wearout |-> w,
      smart |-> r] :
        h \in {"PASSED", "FAILED"}, w \in {-1, 63}, r \in SmartResponses}

RECURSIVE DiskListsOf(_)
DiskListsOf(len) ==
    IF len = 0 THEN {<<>>}
    ELSE {Append(l, d) : l \in DiskListsOf(len - 1), d \in DisksAt(len)}

\* the disk listings of up to max disks
DiskLists(max) == UNION {DiskListsOf(len) : len \in 0..max}

TokenConfigs == {c \in Configs : c.TokenID # "" /\ c.TokenSecret # ""}

\* collectNodeDiskSMART(ch, "pve1") called on a fresh collector against an API
\* that answers with one of the disk listings
InitDisk ==
    /\ cfg \in TokenConfigs
    /\ up \in {[disks |-> l] : l \in DiskLists(MaxDisks)}
    /\ ticket = ""
    /\ csrf = ""
    /\ pc = "idle"
    /\ nodes = <<>>
    /\ guests = EmptyMap
    /\ workers = {Worker("collectNodeDiskSMART", "collectNodeDiskSMART", NodeName(1),
                         "", 0, 0, "list")}
    /\ requests = EmptyBag
    /\ posts = 0
    /\ samples = EmptyBag
    /\ nfail = 0
    /\ backups = EmptyMap
    /\ localBackups = [n \in AllNodes |-> EmptyMap]
    /\ totalGuests = 0
    /\ logged = <<>>
    /\ prefetched = FALSE
    /\ mutex = [writer |-> 0, readers |-> {}]
    /\ sess = <<>>
    /\ host = UTCHost
    /\ described = Descriptors
    /\ collected = {}

NextDisk ==
    \/ collectNodeDiskSMART
    \/ collectDiskSmartDetail
    \/ collectNodeDiskSMART_wait

SpecDisk == InitDisk /\ [][NextDisk]_vars

\* ------------------------------------------- the per-node sub-collectors
\* nodes the node list handed to a sub-collector may hold
MaxListNodes == 2

\* the four per-node sub-collectors called on a fresh collector in token mode
\* with a node list of up to MaxListNodes nodes
InitStorage ==
    LET
        \* the goroutines collectNodeMetricsWithNodes, collectStorageMetrics,
        \* collectZFSPoolMetricsWithNodes and collectCertificateMetrics start for the
        \* node list they are given
        LeafStarted ==
            PerNode("collectNodeMetricsWithNodes", "collectNodeDetailedMetrics", "request")
            \cup PerNode("collectStorageMetrics", "collectStorageMetrics", "request")
            \cup PerNode("collectZFSMetricsWithNodes", "collectZFSPoolMetricsWithNodes", "request")
            \cup PerNode("collectCertificateMetrics", "collectCertificateMetrics", "request")
    IN
    /\ cfg \in TokenConfigs
    /\ nodes \in {[i \in 1..k |-> NodeName(i)] : k \in 0..MaxListNodes}
    /\ up = [nodes |-> nodes, status |-> [n \in Range(nodes) |-> HealthyNodeStatus]]
    /\ ticket = ""
    /\ csrf = ""
    /\ pc = "idle"
    /\ guests = EmptyMap
    /\ workers = LeafStarted
    /\ requests = EmptyBag
    /\ posts = 0
    /\ samples = EmptyBag
    /\ nfail = 0
    /\ backups = EmptyMap
    /\ localBackups = [n \in AllNodes |-> EmptyMap]
    /\ totalGuests = 0
    /\ logged = <<>>
    /\ prefetched = FALSE
    /\ mutex = [writer |-> 0, readers |-> {}]
    /\ sess = <<>>
    /\ host = UTCHost
    /\ described = Descriptors
    /\ collected = {}

SpecStorage == InitStorage /\ [][perNodeWorker]_vars

\* ------------------------------------------------ the backup sub-collector
\* batch tasks (tasks with an empty id) the task lists of all nodes may hold
\* together
MaxBatchTasks == 7

\* one entry of /nodes/{node}/tasks?typefilter=vzdump; an empty upid is 0
Task(id, upid, endtime, status) ==
    [ID |-> id, UPID |-> upid, EndTime |-> endtime, Status |-> status]

RECURSIVE BatchTasksOf(_, _)
BatchTasksOf(tasks, ns) ==
    LET
        BatchTasksIn(list) == Cardinality({i \in DOMAIN list : list[i].ID = ""})
    IN
    IF ns = {} THEN 0
    ELSE LET n == CHOOSE x \in ns : TRUE
         IN BatchTasksIn(tasks[n]) + BatchTasksOf(tasks, ns \ {n})

OtherLine == [t |-> "other", vmid |-> "", wall |-> NoWall]

\* collectBackupMetricsWithGuests(ch, nodes, guests) called on a fresh collector
\* in token mode with a node list and an inventory that is not empty, taken up
\* to the start of the per-node goroutines (backup.go:37-51)
InitBackup ==
    LET
        Inventories ==
            LET
                \* the guest inventories collectBackupMetricsWithGuests may be handed: guests
                \* 101 and 102 are QEMU guests, 151 is a container
                InventoryEntry(vmid) ==
                    [vmid |-> vmid, node |-> NodeName(1), kind |-> IF vmid = 151 THEN "lxc" ELSE "qemu"]
            IN
            {InventoryOf(EmptyMap, [i \in DOMAIN vmids |-> InventoryEntry(vmids[i])]) :
                vmids \in {<<101>>, <<151, 102>>, <<101, 151>>, <<101, 151, 102>>}}
    IN
    LET
        \* the log of each batch job, by upid: guest 101, a guest that was deleted
        \* since and guest 151; the logs of the failed jobs; for the six jobs of
        \* ManyBatchTasks one guest per log, but for the first, which records guest
        \* 151 twice and then guest 101
        BackupLogs ==
            LET
                \* a line with "Backup finished at" and no date and time after it
                BadTimeLine == [t |-> "badtime", vmid |-> "", wall |-> NoWall]
            IN
            [u \in {1, 2, 3} \cup 11..16 |->
                CASE u = 1 ->
                       <<OtherLine,
                         FinishedLine("101"), TimeLine(Wall(2024, 1, 15, 3, 45, 22)),
                         FinishedLine("999"), OtherLine, TimeLine(Wall(2024, 1, 15, 3, 50, 0)),
                         TimeLine(Wall(2024, 1, 15, 3, 51, 0)),
                         FinishedLine("151"), BadTimeLine, TimeLine(Wall(2024, 13, 15, 3, 52, 10)),
                         TimeLine(Wall(2024, 1, 15, 3, 52, 10))>>
                  [] u \in {2, 3} ->
                       <<FinishedLine("101"), TimeLine(Wall(2024, 2, 29, 23, 59, 59))>>
                  [] u = 11 ->
                       <<FinishedLine("151"), TimeLine(Wall(2024, 1, 14, 3, 0, 11)),
                         FinishedLine("151"), TimeLine(Wall(2024, 1, 14, 3, 0, 40)),
                         FinishedLine("101"), TimeLine(Wall(2024, 1, 14, 3, 1, 0))>>
                  [] OTHER ->
                       <<FinishedLine("151"), TimeLine(Wall(2024, 1, 14, 3, 0, u))>>]
    IN
    LET
        \* the task lists a node may answer with: none; single-guest tasks of one
        \* guest, one of them failed and later than the others; batch jobs, one OK, one
        \* failed and one OK without upid, next to a single-guest task; many batch jobs
        TaskLists ==
            LET
                \* a task list with more batch jobs than maxBatchLogFetches: a failed batch job,
                \* six batch jobs that ended OK and a single-guest task
                ManyBatchTasks ==
                    <<Task("", 3, 1705400000, "job errors")>>
                    \o [i \in 1..6 |-> Task("", 10 + i, 1705300000 + i, "OK")]
                    \o <<Task("101", 25, 1705000003, "OK")>>
            IN
            {<<>>,
             <<Task("101", 21, 1705000005, "OK"),
               Task("101", 22, 1800000000, "unexpected status"),
               Task("101", 23, 1705000001, "OK")>>,
             <<Task("", 1, 1705300000, "OK"),
               Task("", 2, 1705400000, "job errors"),
               Task("", 0, 1705300000, "OK"),
               Task("101", 24, 1705000002, "OK")>>,
             ManyBatchTasks}
    IN
    LET
        \* the backup upstreams with the node list ns
        BackupUpstreams(ns) ==
            {[nodes |-> ns, tasks |-> tasks, logs |-> BackupLogs] :
                tasks \in {x \in [Range(ns) -> TaskLists] :
                              BatchTasksOf(x, Range(ns)) <= MaxBatchTasks}}
    IN
    LET
        \* hosts whose local time is behind UTC, UTC, and ahead of UTC
        Hosts == {[tz |-> off] : off \in {-18000, 0, 3600}}
    IN
    /\ cfg \in TokenConfigs
    /\ nodes \in {[i \in 1..k |-> NodeName(i)] : k \in 0..MaxListNodes}
    /\ up \in BackupUpstreams(nodes)
    /\ guests \in Inventories
    /\ totalGuests = Cardinality(DOMAIN guests)
    /\ workers = BackupStart
    /\ ticket = ""
    /\ csrf = ""
    /\ pc = "idle"
    /\ requests = EmptyBag
    /\ posts = 0
    /\ samples = EmptyBag
    /\ nfail = 0
    /\ backups = EmptyMap
    /\ localBackups = [n \in Range(nodes) |-> EmptyMap]
    /\ logged = <<>>
    /\ prefetched = FALSE
    /\ mutex = [writer |-> 0, readers |-> {}]
    /\ sess = <<>>
    /\ host \in Hosts
    /\ described = Descriptors
    /\ collected = {}

NextBackup ==
    \/ collectNodeBackups
    \/ parseBackupLog
    \/ processBatchBackupJobs
    \/ emitBackupMetrics

SpecBackup == InitBackup /\ [][NextBackup]_vars

\* ---------------------------------------------- the cluster sub-collector
\* entries the data of /cluster/status may hold
MaxClusterItems == 3

\* collectClusterMetrics(ch) called on a fresh collector in token mode
InitCluster ==
    LET
        \* the bodies of /cluster/status: any mix and order of up to MaxClusterItems
        \* entries
        ClusterBodies(max) ==
            LET
                \* the entries of /cluster/status: a cluster entry with or without quorum and
                \* a node count, a node entry online or not
                ClusterItems ==
                    {ClusterItem("cluster", q, 0, n) : q \in {0, 1}, n \in 0..MaxClusterItems}
                    \cup {ClusterItem("node", 0, on, 0) : on \in {0, 1}}
            IN
            UNION {[1..k -> ClusterItems] : k \in 0..max}
    IN
    /\ cfg \in TokenConfigs
    /\ up \in {[nodes |-> <<>>, cluster |-> b] : b \in ClusterBodies(MaxClusterItems)}
    /\ nodes = <<>>
    /\ ticket = ""
    /\ csrf = ""
    /\ pc = "idle"
    /\ guests = EmptyMap
    /\ workers = Single("collectClusterMetrics", "status")
    /\ requests = EmptyBag
    /\ posts = 0
    /\ samples = EmptyBag
    /\ nfail = 0
    /\ backups = EmptyMap
    /\ localBackups = [n \in AllNodes |-> EmptyMap]
    /\ totalGuests = 0
    /\ logged = <<>>
    /\ prefetched = FALSE
    /\ mutex = [writer |-> 0, readers |-> {}]
    /\ sess = <<>>
    /\ host = UTCHost
    /\ described = Descriptors
    /\ collected = {}

SpecCluster == InitCluster /\ [][collectClusterMetrics]_vars

\* ------------------------------------------------ the detail of a container
\* characters a pressure string of status/current may hold
MaxPSILen == 4

\* the goroutine collectResourceMetrics starts for container 151 of the first
\* node (part_004:465-467), called on a fresh collector in token mode; the
\* container runs or not, and its six pressure strings are any of PSIStrings
InitLXC ==
    LET
        \* the pressure strings of up to max characters
        PSIStrings(max) ==
            LET
                \* pressure strings: a missing key (""), text that is no number, a
                \* decimal fraction, digits with two points, and a negative fraction
                PSITexts ==
                    {<<>>, <<"n", "/", "a">>, <<"0", ".", "7", "5">>,
                     <<"1", ".", ".", "2">>, <<"-", "1", ".", "2", "5">>}
            IN
            {t \in PSITexts : Len(t) <= max}
    IN
    /\ cfg \in TokenConfigs
    /\ nodes = <<NodeName(1)>>
    /\ \E st \in GuestStatuses, psi \in [1..6 -> PSIStrings(MaxPSILen)] :
          /\ up = [nodes |-> nodes,
                   guests |-> [n \in AllNodes |-> [k \in Kinds |->
                                 IF n = NodeName(1) /\ k = "lxc"
                                 THEN <<[vmid |-> 151, status |-> st, psi |-> psi]>>
                                 ELSE <<>>]]]
          /\ workers = {Worker("collectVMMetricsWithNodes", "collectResourceMetrics",
                               NodeName(1), "lxc", 151, 0, st)}
    /\ ticket = ""
    /\ csrf = ""
    /\ pc = "idle"
    /\ guests = EmptyMap
    /\ requests = EmptyBag
    /\ posts = 0
    /\ samples = EmptyBag
    /\ nfail = 0
    /\ backups = EmptyMap
    /\ localBackups = [n \in AllNodes |-> EmptyMap]
    /\ totalGuests = 0
    /\ logged = <<>>
    /\ prefetched = FALSE
    /\ mutex = [writer |-> 0, readers |-> {}]
    /\ sess = <<>>
    /\ host = UTCHost
    /\ described = Descriptors
    /\ collected = {}

SpecLXC == InitLXC /\ [][collectResourceMetrics_guest]_vars

\* ------------------------------------------------------- the node status
\* strings the loadavg array of /nodes/{node}/status may hold
MaxLoadAvg == 3

\* collectNodeDetailedMetrics(ch, "pve1") called on a fresh collector in token
\* mode
InitNode ==
    LET
        \* the node statuses: a loadavg array of up to max strings, present or not at
        \* all (length 0), and a frequency
        NodeStatuses(max) ==
            LET
                \* an entry of loadavg or the frequency: a decimal number, text that is no
                \* number, or the empty string
                StatusTexts == {<<"0", ".", "7", "5">>, <<"n", "/", "a">>, <<>>}
            IN
            {NodeStatus(l, m) : l \in UNION {[1..k -> StatusTexts] : k \in 0..max},
                                m \in {<<"2", "4", "0", "0">>, <<"n", "/", "a">>}}
    IN
    /\ cfg \in TokenConfigs
    /\ nodes = <<NodeName(1)>>
    /\ up \in {[nodes |-> nodes, status |-> [n \in Range(nodes) |-> st]] :
                 st \in NodeStatuses(MaxLoadAvg)}
    /\ workers = PerNode("collectNodeMetricsWithNodes", "collectNodeDetailedMetrics",
                         "request")
    /\ ticket = ""
    /\ csrf = ""
    /\ pc = "idle"
    /\ guests = EmptyMap
    /\ requests = EmptyBag
    /\ posts = 0
    /\ samples = EmptyBag
    /\ nfail = 0
    /\ backups = EmptyMap
    /\ localBackups = [n \in AllNodes |-> EmptyMap]
    /\ totalGuests = 0
    /\ logged = <<>>
    /\ prefetched = FALSE
    /\ mutex = [writer |-> 0, readers |-> {}]
    /\ sess = <<>>
    /\ host = UTCHost
    /\ described = Descriptors
    /\ collected = {}

SpecNode == InitNode /\ [][perNodeWorker]_vars

\* ----------------------------------------------------- the ARC statistics
\* the longest arcstats file
MaxARCLines == 2

\* collectZFSMetricsWithNodes started by a Collect that found no node, on a host
\* whose arcstats file has up to MaxARCLines lines: a counter line (name, type,
\* an unsigned value), the header line of the kstat, or a line cut short
InitARC ==
    LET
        Lines ==
            {<<name, "4", value>> : name \in {"hits", "misses", "size"},
                                     value \in {<<"0">>, <<"1">>, <<"3">>}}
            \cup {<<"name", "type", <<"d", "a", "t", "a">>>>, <<"hits", "4">>}
        Files == UNION {[1..k -> Lines] : k \in 0..MaxARCLines}
    IN
    /\ host \in {[UTCHost EXCEPT !.arcstats = f] : f \in Files}
    /\ workers = Single("collectZFSMetricsWithNodes", "pools")
    /\ cfg \in TokenConfigs
    /\ nodes = <<>>
    /\ up = [nodes |-> <<>>]
    /\ ticket = ""
    /\ csrf = ""
    /\ pc = "wait"
    /\ guests = EmptyMap
    /\ requests = EmptyBag
    /\ posts = 0
    /\ samples = EmptyBag
    /\ nfail = 0
    /\ backups = EmptyMap
    /\ localBackups = [n \in AllNodes |-> EmptyMap]
    /\ totalGuests = 0
    /\ logged = <<>>
    /\ prefetched = FALSE
    /\ mutex = [writer |-> 0, readers |-> {}]
    /\ sess = <<>>
    /\ described = Descriptors
    /\ collected = {}

SpecARC == InitARC /\ [][collectZFSARCMetrics]_vars

\* --------------------------------------------------------- the sensors
\* the most keys of a sensor
MaxSensorKeys == 3

\* collectSensorsMetrics started by Collect on a host with one chip with one
\* sensor, whose keys are visited in any order: its power input, its power
\* average as a number or as text, its power cap and a temperature
InitSensors ==
    LET
        Reading(key, value) == [key |-> key, value |-> value]
        power1_average == <<"p", "o", "w", "e", "r", "1", "_", "a", "v", "e", "r", "a", "g", "e">>
        Readings ==
            {Reading(<<"p", "o", "w", "e", "r", "1", "_", "i", "n", "p", "u", "t">>, RawField(5)),
             Reading(power1_average, RawField(7)),
             Reading(power1_average, RawText),
             Reading(<<"p", "o", "w", "e", "r", "1", "_", "c", "a", "p">>, RawField(9)),
             Reading(<<"t", "e", "m", "p", "1", "_", "i", "n", "p", "u", "t">>, RawField(40))}
        Maps ==
            {m \in UNION {[1..k -> Readings] : k \in 0..MaxSensorKeys} :
                \A i, j \in DOMAIN m : m[i].key = m[j].key => i = j}
    IN
    /\ host \in {[UTCHost EXCEPT !.sensors =
                      <<[name |-> "acpi_power_meter-acpi-0", adapter |-> "ACPI interface",
                         sensors |-> <<[name |-> "power1", map |-> m]>>]>>] :
                    m \in Maps}
    /\ workers = Single("collectSensorsMetrics", "run")
    /\ cfg \in TokenConfigs
    /\ nodes = <<>>
    /\ up = [nodes |-> <<>>]
    /\ ticket = ""
    /\ csrf = ""
    /\ pc = "wait"
    /\ guests = EmptyMap
    /\ requests = EmptyBag
    /\ posts = 0
    /\ samples = EmptyBag
    /\ nfail = 0
    /\ backups = EmptyMap
    /\ localBackups = [n \in AllNodes |-> EmptyMap]
    /\ totalGuests = 0
    /\ logged = <<>>
    /\ prefetched = FALSE
    /\ mutex = [writer |-> 0, readers |-> {}]
    /\ sess = <<>>
    /\ described = Descriptors
    /\ collected = {}

SpecSensors == InitSensors /\ [][collectSensorsMetrics]_vars

\* ------------------------------------------------------ the configuration
\* the error value of a call that succeeds
Nil == "<nil>"

\* Validate taking a token ID or a token secret alone for token authentication
Validate_eitherTokenField(c) ==
    IF c.Host = "" THEN "proxmox host is required"
    ELSE IF c.Password = "" /\ ~(c.TokenID # "" \/ c.TokenSecret # "")
    THEN "either password or token authentication must be configured"
    ELSE Nil

\* Config.Validate on c.Proxmox: the error it returns
Validate(c) ==
    IF c.Host = "" THEN "proxmox host is required"
    ELSE LET hasPassword == c.Password # ""
             hasToken == c.TokenID # "" /\ c.TokenSecret # ""
         IN  IF ~hasPassword /\ ~hasToken
             THEN "either password or token authentication must be configured"
             ELSE Nil

\* main calling config.Load, which ends with Validate: an error is logged by
\* log.Fatalf and the exporter exits, otherwise main goes on to register the
\* collector
Load ==
    /\ pc = "main"
    /\ IF Validate(cfg) # Nil
       THEN /\ logged' = Append(logged, "Failed to load configuration: " \o Validate(cfg))
            /\ pc' = "exited"
       ELSE /\ pc' = "register"
            /\ UNCHANGED logged
    /\ UNCHANGED <<session, described, host, collected, prefetched, cfg, ticket, csrf, up, nodes,
                   guests, workers, requests, posts, samples, nfail, backups,
                   localBackups, totalGuests>>

\* the exporter started with a configuration whose host, password, token ID and
\* token secret are each empty, blank or set
InitConfig ==
    /\ cfg \in [Host : {"", " ", "localhost"}, Password : {"", " ", "hunter2"},
                TokenID : {"", " ", "root@pam!tok"}, TokenSecret : {"", " ", "s3cr3t"}]
    /\ pc = "main"
    /\ nodes = <<>>
    /\ up = [nodes |-> <<>>]
    /\ workers = {}
    /\ ticket = ""
    /\ csrf = ""
    /\ guests = EmptyMap
    /\ requests = EmptyBag
    /\ posts = 0
    /\ samples = EmptyBag
    /\ nfail = 0
    /\ backups = EmptyMap
    /\ localBackups = [n \in AllNodes |-> EmptyMap]
    /\ totalGuests = 0
    /\ logged = <<>>
    /\ prefetched = FALSE
    /\ mutex = [writer |-> 0, readers |-> {}]
    /\ sess = <<>>
    /\ host = UTCHost
    /\ described = <<>>
    /\ collected = {}

SpecConfig == InitConfig /\ [][Load \/ Describe]_vars

\* ------------------------------------------------ the guest sub-collector
\* collectVMMetricsWithNodes(ch, nodes) called on a fresh collector in token
\* mode, with the node list of an upstream whose guest listings are arbitrary
InitVM ==
    /\ cfg \in TokenConfigs
    /\ up \in Upstreams(NodeLists)
    /\ ticket = ""
    /\ csrf = ""
    /\ pc = "idle"
    /\ nodes = up.nodes
    /\ guests = EmptyMap
    /\ workers = PerNode("collectVMMetricsWithNodes", "collectVMMetricsWithNodes", "qemu")
    /\ requests = EmptyBag
    /\ posts = 0
    /\ samples = EmptyBag
    /\ nfail = 0
    /\ backups = EmptyMap
    /\ localBackups = [n \in AllNodes |-> EmptyMap]
    /\ totalGuests = 0
    /\ logged = <<>>
    /\ prefetched = FALSE
    /\ mutex = [writer |-> 0, readers |-> {}]
    /\ sess = <<>>
    /\ host = UTCHost
    /\ described = Descriptors
    /\ collected = {}

NextVM ==
    \/ collectResourceMetrics
    \/ collectResourceMetrics_guest
    \/ collectVMMetricsWithNodes_count

SpecVM == InitVM /\ [][NextVM]_vars

\* ------------------------------------------------------------ the session
\* Collect invocations the HTTP server may run, one after the other or
\* overlapping
MaxCollects == 2

\* the goroutines of an invocation that call apiRequest when /nodes lists no
\* node: Collect itself, collectClusterMetrics and collectReplicationMetrics
Threads == {"Collect", "collectClusterMetrics", "collectReplicationMetrics"}

\* a goroutine of an invocation: where it stands, the path of the apiRequest
\* call it is in, and the ticket it has copied into the Cookie header
Thread(st, path, t) == [st |-> st, path |-> path, t |-> t]

Done == Thread("done", PathNodes, "")

\* c.mutex.Lock() returns
CanLock(m) == m.writer = 0 /\ m.readers = {}

\* c.mutex.RLock() returning while authenticate holds the lock
CanRLockAlways(m) == m.writer \in 0..MaxCollects

\* c.mutex.RLock() returns
CanRLock(m) == m.writer = 0

\* authenticate dropping the stored session when the POST fails
authenticate_PostForm_clearsOnFailure(i) ==
    /\ sess[i].th["Collect"].st = "idle"
    /\ CanLock(mutex)
    /\ IF TokenMode
       THEN /\ sess' = [sess EXCEPT ![i].th["Collect"].st = "call"]
            /\ UNCHANGED <<posts, nfail, mutex, ticket, csrf>>
       ELSE \E o \in Outcomes :
            /\ MayHave(o)
            /\ posts' = posts + 1
            /\ nfail' = Failures(o)
            /\ IF o = "ok"
               THEN /\ mutex' = [mutex EXCEPT !.writer = i]
                    /\ sess' = [sess EXCEPT ![i].posted = @ + 1, ![i].res = posts + 1,
                                            ![i].th["Collect"].st = "setTicket"]
                    /\ UNCHANGED <<ticket, csrf>>
               ELSE /\ mutex' = mutex
                    /\ ticket' = ""
                    /\ csrf' = ""
                    /\ sess' = [sess EXCEPT ![i].posted = @ + 1,
                                            ![i].th["Collect"].st = "returned"]
    /\ UNCHANGED <<described, host, collected, cfg, up, pc, nodes, guests, workers, requests, samples,
                   backups, localBackups, totalGuests, logged, prefetched>>

\* authenticate returning the stored session without a POST
authenticate_PostForm_cached(i) ==
    /\ sess[i].th["Collect"].st = "idle"
    /\ CanLock(mutex)
    /\ IF TokenMode \/ ticket # ""
       THEN /\ sess' = [sess EXCEPT ![i].th["Collect"].st = "call"]
            /\ UNCHANGED <<posts, nfail, mutex>>
       ELSE \E o \in Outcomes :
            /\ MayHave(o)
            /\ posts' = posts + 1
            /\ nfail' = Failures(o)
            /\ IF o = "ok"
               THEN /\ mutex' = [mutex EXCEPT !.writer = i]
                    /\ sess' = [sess EXCEPT ![i].posted = @ + 1, ![i].res = posts + 1,
                                            ![i].th["Collect"].st = "setTicket"]
               ELSE /\ mutex' = mutex
                    /\ sess' = [sess EXCEPT ![i].posted = @ + 1,
                                            ![i].th["Collect"].st = "returned"]
    /\ UNCHANGED <<described, host, collected, cfg, ticket, csrf, up, pc, nodes, guests, workers, requests, samples,
                   backups, localBackups, totalGuests, logged, prefetched>>

\* Collect calls authenticate (collect.go:15, api.go:12-47): the lock is taken;
\* in token mode authenticate returns at once; otherwise the POST is sent, and
\* an error, a non-200 status or a body that does not decode makes authenticate
\* release the lock and Collect return
authenticate_PostForm(i) ==
    /\ sess[i].th["Collect"].st = "idle"
    /\ CanLock(mutex)
    /\ IF TokenMode
       THEN /\ sess' = [sess EXCEPT ![i].th["Collect"].st = "call"]
            /\ UNCHANGED <<posts, nfail, mutex>>
       ELSE \E o \in Outcomes :
            /\ MayHave(o)
            /\ posts' = posts + 1
            /\ nfail' = Failures(o)
            /\ IF o = "ok"
               THEN /\ mutex' = [mutex EXCEPT !.writer = i]
                    /\ sess' = [sess EXCEPT ![i].posted = @ + 1, ![i].res = posts + 1,
                                            ![i].th["Collect"].st = "setTicket"]
               ELSE /\ mutex' = mutex
                    /\ sess' = [sess EXCEPT ![i].posted = @ + 1,
                                            ![i].th["Collect"].st = "returned"]
    /\ UNCHANGED <<described, host, collected, cfg, ticket, csrf, up, pc, nodes, guests, workers, requests, samples,
                   backups, localBackups, totalGuests, logged, prefetched>>

\* authenticate, api.go:49: c.ticket = result.Data.Ticket
authenticate_setTicket(i) ==
    /\ sess[i].th["Collect"].st = "setTicket"
    /\ ticket' = TicketOf(sess[i].res)
    /\ sess' = [sess EXCEPT ![i].th["Collect"].st = "setCSRF"]
    /\ UNCHANGED <<described, host, collected, cfg, csrf, up, pc, nodes, guests, workers, requests, posts, samples,
                   nfail, backups, localBackups, totalGuests, logged, prefetched, mutex>>

\* authenticate returning without the deferred Unlock
authenticate_setCSRF_keepsLock(i) ==
    /\ sess[i].th["Collect"].st = "setCSRF"
    /\ csrf' = CSRFOf(sess[i].res)
    /\ sess' = [sess EXCEPT ![i].th["Collect"].st = "call"]
    /\ UNCHANGED <<described, host, collected, cfg, ticket, up, pc, nodes, guests, workers, requests, posts, samples,
                   nfail, backups, localBackups, totalGuests, logged, prefetched, mutex>>

\* authenticate, api.go:50-52: c.csrf = result.Data.CSRF, the deferred Unlock and
\* the return to Collect, which goes on to apiRequest("/nodes")
authenticate_setCSRF(i) ==
    /\ sess[i].th["Collect"].st = "setCSRF"
    /\ csrf' = CSRFOf(sess[i].res)
    /\ mutex' = [mutex EXCEPT !.writer = 0]
    /\ sess' = [sess EXCEPT ![i].th["Collect"].st = "call"]
    /\ UNCHANGED <<described, host, collected, cfg, ticket, up, pc, nodes, guests, workers, requests, posts, samples,
                   nfail, backups, localBackups, totalGuests, logged, prefetched>>

\* apiRequest, api.go:65-69: RLock, and in password mode the Cookie header is
\* set from c.ticket
apiRequest_RLock(i, f) ==
    /\ sess[i].th[f].st = "call"
    /\ CanRLock(mutex)
    /\ mutex' = [mutex EXCEPT !.readers = @ \cup {<<i, f>>}]
    /\ sess' = [sess EXCEPT ![i].th[f].st = "rlocked", ![i].th[f].t = ticket]
    /\ UNCHANGED <<described, host, collected, cfg, ticket, csrf, up, pc, nodes, guests, workers, requests, posts,
                   samples, nfail, backups, localBackups, totalGuests, logged, prefetched>>

\* what the goroutines of an invocation do once apiRequest(path) has returned
\* to goroutine f with outcome o: Collect returns when /nodes fails
\* (collect.go:21-36) and starts the sub-collectors after /cluster/resources
\* (collect.go:47-120); collectClusterMetrics goes on to /cluster/ha/resources
\* when /cluster/status parsed (zfs.go:156-215)
After(th, f, o) ==
    CASE th[f].path = PathNodes ->
            IF o = "ok" THEN [th EXCEPT ![f] = Thread("call", PathResources, "")]
            ELSE [th EXCEPT ![f] = Thread("returned", PathNodes, "")]
      [] th[f].path = PathResources ->
            [th EXCEPT ![f] = Thread("wait", PathNodes, ""),
                       !["collectClusterMetrics"] = Thread("call", PathClusterStatus, ""),
                       !["collectReplicationMetrics"] = Thread("call", PathReplication, "")]
      [] th[f].path = PathClusterStatus ->
            IF o = "ok" THEN [th EXCEPT ![f] = Thread("call", PathHAResources, "")]
            ELSE [th EXCEPT ![f] = Done]
      [] OTHER -> [th EXCEPT ![f] = Done]

\* apiRequest, api.go:70-84: the CSRF header is set from c.csrf, RUnlock, and
\* the request is sent and answered
apiRequest_Do(i, f) ==
    /\ sess[i].th[f].st = "rlocked"
    /\ \E o \in Outcomes :
        /\ MayHave(o)
        /\ nfail' = Failures(o)
        /\ requests' = requests (+) SetToBag({Request([inv |-> i, fn |-> f],
                                                      sess[i].th[f].path,
                                                      Headers(sess[i].th[f].t, csrf), o)})
        /\ sess' = [sess EXCEPT ![i].th = After(@, f, o)]
    /\ mutex' = [mutex EXCEPT !.readers = @ \ {<<i, f>>}]
    /\ UNCHANGED <<described, host, collected, cfg, ticket, csrf, up, pc, nodes, guests, workers, posts, samples,
                   backups, localBackups, totalGuests, logged, prefetched>>

\* Collect, collect.go:122-123: wg.Wait returns and Collect returns
Collect_return(i) ==
    /\ sess[i].th["Collect"].st = "wait"
    /\ \A f \in Threads \ {"Collect"} : sess[i].th[f].st = "done"
    /\ sess' = [sess EXCEPT ![i].th["Collect"].st = "returned"]
    /\ UNCHANGED <<described, host, collected, cfg, ticket, csrf, up, pc, nodes, guests, workers, requests, posts,
                   samples, nfail, backups, localBackups, totalGuests, logged, prefetched,
                   mutex>>

\* a fresh collector, any configuration, a cluster whose /nodes lists no node
InitSession ==
    LET
        \* an invocation that has not been called yet: res is the POST whose answer
        \* authenticate decoded, posted the POSTs the invocation has sent
        Fresh ==
            LET
                Off == Thread("off", PathNodes, "")
            IN
            [res |-> 0, posted |-> 0,
             th |-> [f \in Threads |-> IF f = "Collect" THEN Thread("idle", PathNodes, "")
                                        ELSE Off]]
    IN
    /\ cfg \in Configs
    /\ up \in Upstreams({<<>>})
    /\ ticket = ""
    /\ csrf = ""
    /\ pc = "idle"
    /\ nodes = <<>>
    /\ guests = EmptyMap
    /\ workers = {}
    /\ requests = EmptyBag
    /\ posts = 0
    /\ samples = EmptyBag
    /\ nfail = 0
    /\ backups = EmptyMap
    /\ localBackups = [n \in AllNodes |-> EmptyMap]
    /\ totalGuests = 0
    /\ logged = <<>>
    /\ prefetched = FALSE
    /\ mutex = [writer |-> 0, readers |-> {}]
    /\ sess = [i \in 1..MaxCollects |-> Fresh]
    /\ host = UTCHost
    /\ described = Descriptors
    /\ collected = {}

NextSession ==
    \E i \in 1..MaxCollects :
        \/ authenticate_PostForm(i)
        \/ authenticate_setTicket(i)
        \/ authenticate_setCSRF(i)
        \/ Collect_return(i)
        \/ \E f \in Threads : apiRequest_RLock(i, f)
        \/ \E f \in Threads : apiRequest_Do(i, f)

SpecSession == InitSession /\ [][NextSession]_vars

\* ------------------------------------------------------------- termination
\* the scrapes whose goroutines wait for each other: overlapping invocations
\* at the session lock (InitSession), the backup sub-collector of a two-node
\* cluster at its mutexes and wait groups (InitBackup), and a Collect at
\* wg.Wait with the backup sub-collector, which enumerates the guests itself
\* when the inventory is empty, still running (collect.go:101-122)
InitLive ==
    \/ InitSession
    \/ InitBackup
    \/ /\ cfg \in TokenConfigs
       /\ up \in PlainUpstreams(NodeLists)
       /\ nodes = up.nodes
       /\ prefetched \in BOOLEAN
       /\ guests = IF prefetched THEN InventoryOf(EmptyMap, UpstreamResources) ELSE EmptyMap
       /\ totalGuests = IF NeedsFallback(guests) THEN 0 ELSE Cardinality(DOMAIN guests)
       /\ workers = BackupStart
       /\ pc = "wait"
       /\ ticket = ""
       /\ csrf = ""
       /\ requests = EmptyBag
       /\ posts = 0
       /\ samples = EmptyBag
       /\ nfail = 0
       /\ backups = EmptyMap
       /\ localBackups = [n \in AllNodes |-> EmptyMap]
       /\ logged = <<>>
       /\ mutex = [writer |-> 0, readers |-> {}]
       /\ sess = <<>>
       /\ host = UTCHost
       /\ described = Descriptors
       /\ collected = {}

NextLive ==
    \/ sess # <<>> /\ NextSession
    \/ fetchNodeGuests
    \/ collectBackupMetricsWithGuests_nodes
    \/ NextBackup
    \/ Collect_wait

\* the Go scheduler runs a goroutine that can take a step, and every request
\* is answered
SpecLive == InitLive /\ [][NextLive]_vars /\ WF_vars(NextLive)

\* ------------------------------------------------- properties of one scrape
\* Collect has logged that authenticate returned an error (collect.go:16)
AuthFailed == logged # <<>> /\ logged[1] = "Error during authentication"

\* Collect has logged that /nodes failed or did not parse (collect.go:23, 34)
NodesFailed ==
    logged # <<>>
    /\ logged[1] \in {"Error fetching nodes", "Error unmarshaling nodes"}

\* the distinct GET requests sent for a path
GetsFor(path) == {r \in BagToSet(requests) : r.path = path}

\* C1: in password mode, when authenticate fails (the POST errs, answers
\* non-200 or its body does not decode), Collect has returned, no sample has
\* been sent, no GET has been sent and no sub-collector has been started
C1_AuthFailureEndsScrape ==
    AuthFailed =>
        /\ pc = "returned"
        /\ samples = EmptyBag
        /\ requests = EmptyBag
        /\ workers = {}

C1_Witness == AuthFailed /\ ~TokenMode /\ posts = 1 /\ pc = "returned"

\* C2: when GET /nodes fails or its body does not parse, Collect has returned,
\* no sample has been sent and no sub-collector has been started: the only
\* request of the scrape is Collect's GET /nodes
C2_NodesFailureEndsScrape ==
    NodesFailed =>
        /\ pc = "returned"
        /\ samples = EmptyBag
        /\ workers = {}
        /\ \A r \in BagToSet(requests) : r.by = "Collect" /\ r.path = PathNodes

C2_Witness == NodesFailed /\ pc = "returned" /\ GetsFor(PathNodes) # {}

\* C4: once Collect has returned, none of the ten sub-collectors and none of
\* the per-node, per-guest and per-log goroutines is still running, and no
\* sample is sent after the return
C4_ReturnsAfterAllWorkers ==
    /\ [](pc = "returned" => workers = {})
    /\ [][pc = "returned" => samples' = samples]_vars

\* a scrape that ran per-node, per-guest and per-log goroutines has returned
C4_Witness ==
    /\ pc = "returned"
    /\ \E r \in BagToSet(requests) : r.by = "parseBackupLog"
    /\ \E r \in BagToSet(requests) : r.by = "collectResourceMetrics"
    /\ \E r \in BagToSet(requests) : r.by = "collectStorageMetrics"

\* C5: a scrape that has passed authentication and fetched the node list has
\* sent exactly one GET /nodes, sent by Collect itself; before that it has sent
\* none, and no sub-collector ever sends one
C5_OneNodesRequest ==
    /\ \A r \in GetsFor(PathNodes) : r.by = "Collect" /\ CopiesIn(r, requests) = 1
    /\ Cardinality(GetsFor(PathNodes)) =
          IF pc \in {"register", "idle", "nodes"} \/ AuthFailed THEN 0 ELSE 1

\* per-node goroutines of the scrape have sent their requests
C5_Witness ==
    /\ pc = "wait"
    /\ GetsFor(PathNodes) # {}
    /\ \E n \in AllNodes : GetsFor(LeafPath("collectStorageMetrics", n)) # {}
    /\ \E n \in AllNodes : GetsFor(LeafPath("collectCertificateMetrics", n)) # {}

\* C7: when /cluster/resources?type=vm has answered with a body that parses,
\* whatever it lists, the backup sub-collector sends no per-node /qemu or /lxc
\* request
C7_NoFallbackAfterPrefetch ==
    prefetched => \A r \in BagToSet(requests) : r.by # "fetchNodeGuests"

\* no two samples sent carry the same descriptor and the same label values
NoDuplicateSamples ==
    /\ \A x \in BagToSet(samples) : CopiesIn(x, samples) = 1
    /\ \A x, y \in BagToSet(samples) :
          x.desc = y.desc /\ x.labels = y.labels => x = y

\* C3: in the disk SMART pass of one node, no two samples sent carry the same
\* descriptor and the same label values: what collectNodeDiskSMART sends from
\* the listing and what the SMART-detail parsers send never coincide
C3_NoDuplicateDiskSamples == NoDuplicateSamples

\* the guests the upstream lists, each with its node and kind
ListedGuests ==
    UNION {{[node |-> n, kind |-> k, vmid |-> g.vmid, status |-> g.status] :
               g \in Range(up.guests[n][k])} : n \in AllNodes, k \in Kinds}

\* how many GET requests have been sent for a path
Gets(path) == BagCardinality([r \in GetsFor(path) |-> requests[r]])

StatusGets(g) == Gets(PathStatusCurrent(g.node, g.kind, g.vmid))

Sent(x) == x \in BagToSet(samples)

\* the goroutine of the guest has sent the guest's samples
GuestDone(g) ==
    \E x \in BagToSet(samples) :
        /\ x.desc = (IF g.kind = "lxc" THEN "lxcStatus" ELSE "vmStatus")
        /\ x.labels = GuestLabels(g.node, g.vmid)

\* the disk read and write totals sent for the guest come from the listing
\* (FALSE) or from status/current (TRUE)
DiskTotalsFrom(g, fromDetail) ==
    \A d \in (IF g.kind = "lxc" THEN {"lxcDiskRead", "lxcDiskWrite"}
              ELSE {"vmDiskRead", "vmDiskWrite"}) :
        Sent(Sample(d, DiskIO(fromDetail), GuestLabels(g.node, g.vmid)))

AllDetailSent(g) ==
    \A x \in Range(GuestDetailSamples(g.node, g.kind, g.vmid)) : Sent(x)

NoDetailSent(g) ==
    \A x \in Range(GuestDetailSamples(g.node, g.kind, g.vmid)) : ~Sent(x)

StatusFailed(g) ==
    \E r \in BagToSet(requests) :
        r.path = PathStatusCurrent(g.node, g.kind, g.vmid) /\ ~r.ok

\* the samples sent that carry the labels of the guest, each with its count
GuestBag(g) ==
    LET own == {x \in BagToSet(samples) :
                   /\ Len(x.labels) >= 3
                   /\ SubSeq(x.labels, 1, 3) = GuestLabels(g.node, g.vmid)}
    IN [x \in own |-> samples[x]]

\* the samples of a guest served from its list entry alone (FALSE) or from its
\* list entry and its status/current body (TRUE), each once
GuestSamplesFrom(g, detailed) ==
    SeqToBag(GuestListSamples(g.node, g.kind, g.vmid, g.status, detailed)
             \o (IF detailed THEN GuestDetailSamples(g.node, g.kind, g.vmid)
                 ELSE <<>>))

BackupDone == ~Live(workers, "collectBackupMetricsWithGuests")

\* the task of the node's task list a record was taken from
TaskOf(r) == {t \in Range(up.tasks[r.node]) : t.UPID = r.upid}

\* the records compared for a VMID
RecordsOf(v) == {r \in collected : r.vmid = v}

Latest(rs) == CHOOSE ts \in {r.ts : r \in rs} : \A r \in rs : r.ts <= ts

\* C13: once the backup sub-collector has returned, the backups map holds, for
\* every VMID with a record, the largest end time over its records (the OK
\* single-guest tasks of every node and the lines of the inspected logs), and
\* nothing for a VMID without a record; every record comes from a task whose
\* status is "OK": a single-guest task with that id and end time, or the log of
\* a batch job
C13_LatestBackupKept ==
    /\ \A r \in collected :
          \E t \in TaskOf(r) :
              /\ t.Status = "OK"
              /\ IF r.from = "task" THEN t.ID = r.vmid /\ t.EndTime = r.ts
                 ELSE t.ID = ""
    /\ BackupDone =>
          /\ DOMAIN backups = {r.vmid : r \in collected}
          /\ \A v \in DOMAIN backups : backups[v] = Latest(RecordsOf(v))

\* the sub-collector has returned with a VMID whose records come from
\* single-guest tasks of two nodes and from a log, next to task lists that
\* hold failed tasks
C13_Witness ==
    /\ BackupDone
    /\ \E v \in DOMAIN backups :
          /\ \E r, q \in RecordsOf(v) :
                r.from = "task" /\ q.from = "task" /\ r.node # q.node /\ r.ts # q.ts
          /\ \E r \in RecordsOf(v) : r.from = "log"
    /\ \E n \in Range(nodes) : \E t \in Range(up.tasks[n]) : t.Status # "OK"

\* the task-log requests sent for a node, each with its count
LogGets(n) ==
    LET own == {r \in BagToSet(requests) :
                   r.path.ep = PathTaskLog(n, 0).ep /\ r.path.node = n}
    IN [r \in own |-> requests[r]]

\* C14: at most maxBatchLogFetches = 5 task-log requests have been sent for
\* each node, each for a task of that node's list whose status is "OK" and
\* whose id is empty, and none twice
C14_AtMostFiveLogsPerNode ==
    \A n \in Range(nodes) :
        /\ BagCardinality(LogGets(n)) <= 5
        /\ \A r \in BagToSet(LogGets(n)) :
              /\ requests[r] = 1
              /\ \E t \in Range(up.tasks[n]) :
                    t.UPID = r.path.upid /\ t.Status = "OK" /\ t.ID = ""

\* a node whose task list holds six batch jobs that ended OK has had five of
\* their logs requested, and the sub-collector has returned
C14_Witness ==
    /\ BackupDone
    /\ \E n \in Range(nodes) :
          /\ Cardinality({i \in DOMAIN up.tasks[n] :
                            up.tasks[n][i].Status = "OK" /\ up.tasks[n][i].ID = ""}) > 5
          /\ BagCardinality(LogGets(n)) = 5

\* the Unix seconds of a date and time read on the clock of the host, which is
\* host.tz seconds ahead of UTC
LocalUnix(w) == CivilSeconds(w) - host.tz

\* C15: the timestamp recorded for a line "Backup finished at <date time>" is
\* the Unix seconds of that date and time in the local time zone of the host
C15_LogTimeIsLocal ==
    \A r \in collected : r.from = "log" => r.ts = LocalUnix(r.wall)

\* the last-backup samples sent for a VMID
BackupSamplesFor(v) ==
    {x \in BagToSet(samples) :
        x.desc \in {"vmLastBackup", "lxcLastBackup"} /\ x.labels[2] = v}

\* the VMIDs of the inventory and of the records
KnownVMIDs == DOMAIN guests \cup {r.vmid : r \in collected}

\* C16: once the backup sub-collector has returned, a VMID has a last-backup
\* sample exactly when it has a record and is in the inventory; the sample is
\* sent once, on vmLastBackup for kind qemu and on lxcLastBackup for kind lxc,
\* with the inventory's node and name and the timestamp kept; before the
\* emission no last-backup sample is sent
C16_BackupSampleIffRecordAndGuest ==
    \A v \in KnownVMIDs :
        IF BackupDone /\ RecordsOf(v) # {} /\ v \in DOMAIN guests
        THEN BackupSamplesFor(v) =
               {Sample(IF guests[v].Type = "qemu" THEN "vmLastBackup"
                       ELSE "lxcLastBackup",
                       Latest(RecordsOf(v)), <<guests[v].Node, v, guests[v].Name>>)}
             /\ \A x \in BackupSamplesFor(v) : samples[x] = 1
        ELSE BackupSamplesFor(v) = {}

\* the sub-collector has returned: a container and a QEMU guest have their
\* sample, a guest of the inventory has no record, and a VMID with a record is
\* not in the inventory
C16_Witness ==
    /\ BackupDone
    /\ \E v \in DOMAIN guests :
          guests[v].Type = "lxc" /\ BackupSamplesFor(v) # {}
    /\ \E v \in DOMAIN guests :
          guests[v].Type = "qemu" /\ BackupSamplesFor(v) # {}
    /\ \E v \in DOMAIN guests : RecordsOf(v) = {}
    /\ \E v \in KnownVMIDs : v \notin DOMAIN guests

\* ---------------------------------- properties of the detail of a container
\* status/current of the guest was answered with a body that parsed
StatusAnswered(g) ==
    \E r \in BagToSet(requests) :
        r.path = PathStatusCurrent(g.node, g.kind, g.vmid) /\ r.ok

\* the decimal numbers among the pressure, load and frequency strings, each
\* with its value in hundredths
DecimalValue ==
    (<<"0", ".", "7", "5">> :> 75) @@ (<<"2", "4", "0", "0">> :> 240000)
    @@ (<<"-", "1", ".", "2", "5">> :> 0 - 125)

\* how many samples of a descriptor have been sent for the guest
GuestCount(g, desc) ==
    BagCardinality([x \in {y \in BagToSet(GuestBag(g)) : y.desc = desc} |-> samples[x]])

\* the pressure strings of the guest's status/current
PSIOf(g) == GuestEntry(g.node, g.kind, g.vmid).psi

\* C19: for a running container whose status/current was answered and parsed,
\* each of the six pressure fields has one sample, of the value of its string,
\* when the string is a decimal number, and none when it is not; swap, maxswap,
\* HA managed and PID have one sample each whatever the pressure strings are
C19_PSIDroppedOneByOne ==
    \A g \in ListedGuests :
        (g.kind = "lxc" /\ g.status = "running" /\ StatusAnswered(g)) =>
            /\ \A i \in 1..6 :
                  IF PSIOf(g)[i] \in DOMAIN DecimalValue
                  THEN /\ GuestCount(g, LXCDetailDescs[4 + i]) = 1
                       /\ Sent(Sample(LXCDetailDescs[4 + i], DecimalValue[PSIOf(g)[i]],
                                       GuestLabels(g.node, g.vmid)))
                  ELSE GuestCount(g, LXCDetailDescs[4 + i]) = 0
            /\ \A d \in {"lxcSwap", "lxcMaxSwap", "lxcHAManaged", "lxcPID"} :
                  GuestCount(g, d) = 1

\* a running container was answered with a first pressure string that is no
\* number, a missing one, and decimal numbers after them
C19_Witness ==
    \E g \in ListedGuests :
        /\ g.kind = "lxc" /\ g.status = "running" /\ StatusAnswered(g)
        /\ PSIOf(g)[1] = <<"n", "/", "a">>
        /\ PSIOf(g)[2] = <<>>
        /\ PSIOf(g)[3] \in DOMAIN DecimalValue
        /\ PSIOf(g)[6] \in DOMAIN DecimalValue
        /\ GuestCount(g, "lxcPressureMemorySome") = 1
        /\ GuestCount(g, "lxcPID") = 1

\* ------------------------------------------ properties of the node status
\* how many samples of a descriptor have been sent for the node
NodeCount(n, desc) ==
    BagCardinality([x \in {y \in BagToSet(samples) : y.desc = desc /\ y.labels = <<n>>}
                      |-> samples[x]])

\* /nodes/{node}/status was answered with a body that parsed
NodeStatusAnswered(n) ==
    \E r \in BagToSet(requests) :
        r.path = LeafPath("collectNodeDetailedMetrics", n) /\ r.ok

\* C20: when the node status was answered and parsed, each of the first three
\* positions of loadavg has its load sample exactly when the array holds a
\* string there and the string is a decimal number; iowait, idle, rootfs,
\* cores, sockets, KSM and swap have one sample each whatever loadavg holds
C20_LoadDroppedOneByOne ==
    \A n \in Range(nodes) :
        NodeStatusAnswered(n) =>
            /\ \A i \in 1..3 :
                  NodeCount(n, NodeStatusDescs[i]) =
                      IF i <= Len(up.status[n].loadavg)
                         /\ up.status[n].loadavg[i] \in DOMAIN DecimalValue
                      THEN 1 ELSE 0
            /\ \A j \in (4..Len(NodeStatusDescs)) \ {6} :
                  NodeCount(n, NodeStatusDescs[j]) = 1

\* ------------------------------------ properties of the cluster sub-collector
\* the values sent on a cluster descriptor
ClusterValues(desc) == {x.val : x \in {y \in BagToSet(samples) : y.desc = desc}}

\* /cluster/status was answered with a body that parsed, and the cluster
\* scalars have been sent
ClusterScalarsSent ==
    \E r \in BagToSet(requests) : r.path = PathClusterStatus /\ r.ok

\* C17: whenever the cluster scalars are sent, the value of
\* pve_cluster_nodes_online is at most the value of pve_cluster_nodes_total
C17_OnlineAtMostTotal ==
    ClusterScalarsSent =>
        \A on \in ClusterValues("clusterNodesOnline"),
           total \in ClusterValues("clusterNodesTotal") : on <= total

\* C18: when /cluster/status holds no entry of type cluster and the cluster
\* scalars are sent, pve_cluster_quorate is sent as 1 and
\* pve_cluster_nodes_total as 1
C18_NoClusterEntryMeansOneNode ==
    (ClusterScalarsSent /\ \A item \in Range(up.cluster) : item.Type # "cluster") =>
        /\ ClusterValues("clusterQuorate") = {1}
        /\ ClusterValues("clusterNodesTotal") = {1}

\* ---------------------------------- properties of the per-node sub-collectors
\* the per-node goroutines a node list gives rise to, as (function, node)
LeafCalls == LeafWorkers \X Range(nodes)

\* the request of the goroutine was sent and the caller got no body that parses
LeafFailed(fn, n) ==
    \E r \in BagToSet(requests) : r.path = LeafPath(fn, n) /\ ~r.ok

\* the request of the goroutine was sent and its body parsed
LeafAnswered(fn, n) ==
    \E r \in BagToSet(requests) : r.path = LeafPath(fn, n) /\ r.ok

\* the bag of what the goroutines of a set of calls send when each of them gets
\* a body that parses
RECURSIVE LeafBag(_)
LeafBag(calls) ==
    IF calls = {} THEN EmptyBag
    ELSE LET c == CHOOSE x \in calls : TRUE
         IN SeqToBag(LeafSamples(c[1], c[2])) (+) LeafBag(calls \ {c})

\* C11: when GET /nodes/A/storage has failed or has not parsed, no storage
\* sample labelled with node A has been sent, and what has been sent is what
\* the goroutines of the other nodes and of the other per-node sub-collectors
\* send from their own answers, each sample once: when A's request is the only
\* failure and every goroutine is done, that is everything but A's storage
C11_StorageFailureIsLocal ==
    \A a \in Range(nodes) :
        LeafFailed("collectStorageMetrics", a) =>
            /\ \A x \in BagToSet(samples) :
                  ~(x.desc \in Range(StorageDescs) /\ x.labels[1] = a)
            /\ samples = LeafBag({c \in LeafCalls : LeafAnswered(c[1], c[2])})
            /\ (workers = {} /\ nfail = 1) =>
                  samples = LeafBag(LeafCalls \ {<<"collectStorageMetrics", a>>})

\* the storage request of one node has failed and every other goroutine, the
\* storage goroutine of the other node too, has sent its samples
C11_Witness ==
    /\ workers = {}
    /\ Len(nodes) = 2
    /\ LeafFailed("collectStorageMetrics", nodes[1])
    /\ LeafAnswered("collectStorageMetrics", nodes[2])
    /\ \E x \in BagToSet(samples) :
          x.desc = "storageTotal" /\ x.labels[1] = nodes[2]

\* ------------------------------------------------ properties of a session
\* the distinct GET requests an invocation has sent
RequestsOf(i) == {r \in BagToSet(requests) : r.by.inv = i}

\* the invocation has not returned from authenticate yet
InAuthenticate(i) == sess[i].th["Collect"].st \in {"idle", "setTicket", "setCSRF"}

Returned(i) == sess[i].th["Collect"].st = "returned"

\* C8: with token_id and token_secret both non-empty, every GET carries
\* Authorization = "PVEAPIToken=" + id + "=" + secret, no Cookie and no
\* CSRFPreventionToken header, and no POST /access/ticket is sent
C8_TokenModeRequests ==
    (cfg.TokenID # "" /\ cfg.TokenSecret # "") =>
        /\ posts = 0
        /\ \A r \in BagToSet(requests) :
              /\ r.hdr.Authorization =
                    "PVEAPIToken=" \o cfg.TokenID \o "=" \o cfg.TokenSecret
              /\ r.hdr.Cookie = Absent
              /\ r.hdr.CSRFPreventionToken = Absent

\* in token mode every invocation has sent requests, the sub-collectors' too
C8_Witness ==
    /\ cfg.TokenID # "" /\ cfg.TokenSecret # ""
    /\ \A i \in 1..MaxCollects : RequestsOf(i) # {}
    /\ \E r \in BagToSet(requests) : r.path = PathReplication

\* C9: in password mode an invocation that has called authenticate has sent
\* exactly one POST /access/ticket, whether or not a ticket was stored, and it
\* has sent a GET only after authenticate, and with it the POST, had returned
C9_OnePostBeforeGets ==
    ~TokenMode =>
        \A i \in 1..MaxCollects :
            /\ sess[i].posted = IF sess[i].th["Collect"].st = "idle" THEN 0 ELSE 1
            /\ RequestsOf(i) # {} => ~InAuthenticate(i) /\ sess[i].posted = 1

\* two invocations have authenticated, the later one with the ticket of the
\* earlier one stored, and both have sent their requests and returned
C9_Witness ==
    /\ ~TokenMode
    /\ posts = 2
    /\ nfail = 0
    /\ \A i \in 1..MaxCollects : RequestsOf(i) # {} /\ Returned(i)

\* C10: in password mode every GET carries the ticket and the CSRF token of one
\* and the same successful authenticate call
C10_TicketAndCSRFTogether ==
    ~TokenMode =>
        \A r \in BagToSet(requests) :
            \E k \in 1..posts :
                /\ r.hdr.Cookie = "PVEAuthCookie=" \o TicketOf(k)
                /\ r.hdr.CSRFPreventionToken = CSRFOf(k)

\* overlapping invocations: one has sent a GET with the credentials of its own
\* authentication and a later GET with those of the other's
C10_Witness ==
    /\ ~TokenMode
    /\ \E i, j \in 1..MaxCollects :
          /\ i # j /\ sess[i].res # 0 /\ sess[j].res # 0
          /\ \E r, q \in RequestsOf(i) :
                /\ r.hdr.Cookie = "PVEAuthCookie=" \o TicketOf(sess[i].res)
                /\ q.hdr.Cookie = "PVEAuthCookie=" \o TicketOf(sess[j].res)

\* ------------------------------------------------------------------- C21
\* the numbers of label values the samples sent so far carry
LabelCounts == {Len(x.labels) : x \in BagToSet(samples)}

\* C21: every sample sent is built on a descriptor that Describe has sent, and
\* carries exactly as many label values as that descriptor declares label
\* names; once Describe has run it has sent every descriptor of the catalogue
C21_SamplesMatchDescribed ==
    /\ {x.desc : x \in BagToSet(samples)} \subseteq Range(described) \cap DOMAIN Catalogue
    /\ \A x \in BagToSet(samples) : Len(x.labels) = Len(Catalogue[x.desc])
    /\ pc # "register" => Range(described) = DOMAIN Catalogue

\* a scrape has returned after sending samples with no label, with one label
\* and with the three, four and five labels of guests, sensors and disks
C21_Witness ==
    /\ pc = "returned"
    /\ described # <<>>
    /\ {0, 1, 3, 4, 5} \subseteq LabelCounts

\* ------------------------------------------------------------------- C24
\* the counter values of the arcstats lines, each in hundredths
CounterValue == (<<"0">> :> 0) @@ (<<"1">> :> 100) @@ (<<"3">> :> 300)

\* the value of the last complete line of the arcstats file with this name,
\* zero without one
LastCounter(name) ==
    LET at == {i \in DOMAIN host.arcstats :
                  /\ Len(host.arcstats[i]) >= 3
                  /\ host.arcstats[i][1] = name
                  /\ host.arcstats[i][3] \in DOMAIN CounterValue}
    IN  IF at = {} THEN 0
        ELSE CounterValue[host.arcstats[CHOOSE i \in at : \A j \in at : j <= i][3]]

\* collectZFSARCMetrics has read the arcstats file to its end
ARCRead == workers = {} /\ nfail = 0

HitRatios == {x \in BagToSet(samples) : x.desc = "zfsARCHitRatio"}

\* C24: once the arcstats file is read, a hit-ratio sample has been sent exactly
\* when hits + misses is positive; it is sent once, lies between 0 and 100 and
\* is 100 * hits / (hits + misses), cut after the second fraction digit
C24_HitRatioIffTotalPositive ==
    LET hits == LastCounter("hits")
        misses == LastCounter("misses")
    IN
    /\ ~ARCRead => HitRatios = {}
    /\ ARCRead =>
        /\ HitRatios # {} <=> hits + misses > 0
        /\ \A x \in HitRatios :
            /\ samples[x] = 1
            /\ x.val >= 0 /\ x.val <= 10000
            /\ x.val * (hits + misses) <= 10000 * hits
            /\ 10000 * hits < (x.val + 1) * (hits + misses)
        /\ Cardinality(HitRatios) <= 1

\* a file with one hit and three misses has given a ratio of 25 percent
C24_Witness ==
    /\ ARCRead
    /\ LastCounter("hits") = 100 /\ LastCounter("misses") = 300
    /\ \E x \in HitRatios : x.val = 2500

\* ------------------------------------------------------------------- C25
\* the sensor whose map the scrape reads
SensorMap == host.sensors[1].sensors[1].map

\* the numbers the sensor gives under a key
NumbersAt(key) ==
    {SensorMap[i].value.v : i \in {j \in DOMAIN SensorMap :
                                      SensorMap[j].key = key /\ SensorMap[j].value.num}}

Power1Input == <<"p", "o", "w", "e", "r", "1", "_", "i", "n", "p", "u", "t">>
Power1Average == <<"p", "o", "w", "e", "r", "1", "_", "a", "v", "e", "r", "a", "g", "e">>

\* `sensors -j` has answered and its readings are sent
SensorsRead == workers = {} /\ nfail = 0

\* C25: for a sensor that gives a number both as power input and as power
\* average, the power sample sent carries the input's value, in whichever order
\* the keys were visited
C25_PowerInputPreferred ==
    (SensorsRead /\ NumbersAt(Power1Input) # {} /\ NumbersAt(Power1Average) # {}) =>
        /\ {x.val : x \in {y \in BagToSet(samples) : y.desc = "sensorPower"}}
               = NumbersAt(Power1Input)
        /\ \A x \in BagToSet(samples) : x.desc = "sensorPower" => samples[x] = 1

\* the average was visited after the input, and the input's value was sent
C25_Witness ==
    /\ SensorsRead
    /\ Len(SensorMap) >= 2
    /\ SensorMap[1].key = Power1Input /\ SensorMap[1].value.num
    /\ SensorMap[2].key = Power1Average /\ SensorMap[2].value.num
    /\ \E x \in BagToSet(samples) : x.desc = "sensorPower" /\ x.val = 5

\* ------------------------------------------------------------------- C23
\* config.Load has returned
Loaded == pc # "main"

\* C23: Validate returns an error exactly when the host is empty or neither a
\* non-empty password nor a non-empty token ID together with a non-empty token
\* secret is configured; a token ID without its secret, or a secret without its
\* ID, does not count
C23_ValidateErrorIffUnusable ==
    Loaded =>
        (pc = "exited" /\ logged # <<>>)
            <=> \/ cfg.Host = ""
                \/ /\ cfg.Password = ""
                   /\ cfg.TokenID = "" \/ cfg.TokenSecret = ""

\* a configuration with a host and a token ID but neither token secret nor
\* password was refused
C23_Witness ==
    /\ pc = "exited"
    /\ cfg.Host # "" /\ cfg.TokenID # "" /\ cfg.TokenSecret = "" /\ cfg.Password = ""
    /\ logged = <<"Failed to load configuration: either password or token authentication must be configured">>

\* ------------------------------------------------------------------- C22
\* the data unit counts of the SMART texts, as written and as numbers
UnitsValue == (<<<<1>>, <<2, 3, 4>>>> :> 1234) @@ (<<<<4, 0, 9, 5>>>> :> 4095)

\* the SMART request for the disk was answered with a body that parsed
SmartAnswered(d) ==
    \E r \in BagToSet(requests) :
        /\ r.path = Path("/nodes/%s/disks/smart?disk=%s", NodeName(1), d.DevPath, 0, 0)
        /\ r.ok

\* the values sent as pve_disk_data_written_bytes for the disk
DataWritten(d) ==
    {x.val : x \in {y \in BagToSet(samples) :
                       /\ y.desc = "diskDataWritten"
                       /\ y.labels = DiskLabels(NodeName(1), d)}}

\* the "Data Units Written: N" lines of the disk's SMART text
UnitLines(d) ==
    {l \in Range(d.smart.Text) :
        l.key = "Data Units Written" /\ l.groups \in DOMAIN UnitsValue}

\* C22: for every NVMe SMART text that was read, each line "Data Units Written:
\* N", N written with or without thousands separators, has given a
\* pve_disk_data_written_bytes sample of N * 524,288, and no other value is sent
C22_DataUnitsTimes512KiB ==
    \A i \in DOMAIN up.disks :
        LET d == up.disks[i]
        IN  (d.smart.Type = "text" /\ SmartAnswered(d)) =>
                DataWritten(d) = {UnitsValue[l.groups] * 524288 : l \in UnitLines(d)}

\* a text with "1,234" data units and a text with "4095" data units were read
C22_Witness ==
    /\ Len(up.disks) = 2
    /\ \A i \in 1..2 : up.disks[i].smart.Type = "text" /\ SmartAnswered(up.disks[i])
    /\ DataWritten(up.disks[1]) = {1234 * 524288}
    /\ DataWritten(up.disks[2]) = {4095 * 524288}

\* ------------------------------------------------- C26, C27, C28: early exit
\* the batch logs that were fetched and decoded, each with its node
InspectedLogs ==
    UNION {{<<n, r.path.upid>> : r \in {q \in BagToSet(requests) :
                q.path.ep = PathTaskLog(n, 0).ep /\ q.path.node = n /\ q.ok}} :
           n \in Range(nodes)}

\* the records of a log, as a walk to its last line finds them: a VMID with the
\* date and time of the well-formed "Backup finished at" line that follows it
AllLogRecords(u) ==
    {[vmid |-> r.vmid, wall |-> r.wall] :
        r \in ParseLog(up.logs[u], "", 0, EmptyMap, Len(up.logs[u]) + 1, {}).seen}

\* the records of the log the walk of parseBackupLog has reached
ReachedLogRecords(n, u) ==
    {[vmid |-> r.vmid, wall |-> r.wall] :
        r \in {q \in collected : q.from = "log" /\ q.node = n /\ q.upid = u}}

\* C26: the walk over a log does not stop before the number of distinct VMIDs
\* it has discovered equals the size of the guest inventory: a second record
\* for a VMID does not count again
C26_StopsAtDistinctVMIDs ==
    \A l \in InspectedLogs :
        ReachedLogRecords(l[1], l[2]) # AllLogRecords(l[2]) =>
            Cardinality({r.vmid : r \in ReachedLogRecords(l[1], l[2])}) >= totalGuests

\* C27: for every inspected log and every guest of the inventory with a
\* well-formed record in the log, a record of that guest has been collected
\* from the log: the early exit does not skip it, also when records of VMIDs
\* outside the inventory come before it
C27_InventoryRecordNotSkipped ==
    \A l \in InspectedLogs : \A v \in DOMAIN guests :
        (\E r \in AllLogRecords(l[2]) : r.vmid = v) =>
            \E r \in ReachedLogRecords(l[1], l[2]) : r.vmid = v

\* the backups map of a scrape whose nodes run one after the other, each
\* walking its logs one after the other in the order of its task list
RECURSIVE SequentialBackups(_, _)
SequentialBackups(m, ns) ==
    LET RECURSIVE WalkLogs(_, _)
        WalkLogs(jobs, local) ==
            IF jobs = <<>> THEN local
            ELSE WalkLogs(Tail(jobs),
                          ParseLog(up.logs[Head(jobs)], "", 0, local, totalGuests,
                                   {}).local)
    IN
    IF ns = <<>> THEN m
    ELSE LET tasks == up.tasks[Head(ns)]
             local == WalkLogs(BatchJobs(<<>>, tasks), EmptyMap)
         IN  SequentialBackups(Merge(SingleBackups(m, tasks), local, DOMAIN local),
                               Tail(ns))

\* the last-backup samples sent
LastBackupSamples ==
    {x \in BagToSet(samples) : x.desc \in {"vmLastBackup", "lxcLastBackup"}}

\* C28: a scrape whose requests were all answered has sent the last-backup
\* samples of the scrape that runs its workers one after the other, whatever
\* the order in which its per-node and per-log workers have run
C28_SamplesSameUnderEveryInterleaving ==
    (BackupDone /\ nfail = 0) =>
        LastBackupSamples = BackupSamples(SequentialBackups(EmptyMap, nodes), guests)

\* ------------------------------------------------------------------- C29
\* the authenticate call of invocation i fails in this step: the POST is sent
\* and authenticate returns an error to Collect, which returns
AuthenticateFails(i) ==
    /\ sess[i].th["Collect"].st = "idle"
    /\ sess'[i].th["Collect"].st = "returned"

\* the POST whose answer the last authenticate call that succeeded has stored
\* (POSTs are numbered in the order they are sent, under the session lock)
LastStored ==
    LET stored == {sess[i].res : i \in {j \in 1..MaxCollects : ~InAuthenticate(j)}} \ {0}
    IN  IF stored = {} THEN 0 ELSE CHOOSE k \in stored : \A m \in stored : m <= k

\* C29: an authenticate call that fails leaves c.ticket and c.csrf as they
\* were, and every GET sent in password mode, by the failing invocation's
\* overlapping scrape too, carries the pair the last successful authenticate
\* call stored
C29_FailedAuthKeepsSession ==
    [][/\ \A i \in 1..MaxCollects :
             AuthenticateFails(i) => ticket' = ticket /\ csrf' = csrf
       /\ ~TokenMode =>
             \A r \in BagToSet(requests') \ BagToSet(requests) :
                 /\ LastStored # 0
                 /\ r.hdr.Cookie = "PVEAuthCookie=" \o TicketOf(LastStored)
                 /\ r.hdr.CSRFPreventionToken = CSRFOf(LastStored)]_vars

\* an invocation authenticated with the first POST, the POST of the other
\* failed after that, and the first is now building its first GET with the
\* pair of the first POST
C29_Witness ==
    /\ ~TokenMode
    /\ ticket = TicketOf(1) /\ csrf = CSRFOf(1)
    /\ \E i, j \in 1..MaxCollects :
          /\ sess[i].res = 1
          /\ sess[i].th["Collect"] = Thread("rlocked", PathNodes, TicketOf(1))
          /\ sess[j].res = 0 /\ sess[j].posted = 1 /\ Returned(j)

\* ------------------------------------------------------------------- C30
\* no goroutine of a scrape is left: every invocation has returned, the
\* sub-collector's workers have called wg.Done and Collect is past wg.Wait
Finished ==
    /\ \A i \in DOMAIN sess : Returned(i)
    /\ workers = {}
    /\ pc # "wait"

\* C30: when every request is answered and every runnable goroutine gets to
\* run, every Collect invocation eventually returns, overlapping ones too: no
\* goroutine stays for ever before the session lock, a backup or inventory
\* mutex, or a wait group
C30_EveryCollectReturns == <>[]Finished

\* two overlapping invocations have returned: one of them sent a GET with the
\* pair of its own authentication and, after the other had authenticated under
\* the write lock, a GET with the other's
C30_Witness ==
    /\ Finished
    /\ \E i, j \in DOMAIN sess :
          /\ i # j /\ sess[i].res # 0 /\ sess[j].res # 0
          /\ \E r, q \in RequestsOf(i) :
                /\ r.hdr.Cookie = "PVEAuthCookie=" \o TicketOf(sess[i].res)
                /\ q.hdr.Cookie = "PVEAuthCookie=" \o TicketOf(sess[j].res)

====
